---- MODULE Spec2Model ----
(***************************************************************************)
(* Model of the text-editing core of devcode: the line buffer, the cursor  *)
(* (row, column, x_offset), the key handlers of renderer/input.rs and the  *)
(* mouse click handler of renderer/code_view/code.rs, the scroll handlers   *)
(* of the code area and the gutter and the window resize.                  *)
(*                                                                         *)
(* Text.  A line is a sequence of code points.  Three classes of code      *)
(* point are distinguished, since the handlers mix three ways of counting: *)
(*   "a"  one UTF-8 byte,  starts a grapheme cluster        (ASCII letter) *)
(*   "e"  two UTF-8 bytes, starts a grapheme cluster        (U+00E9)       *)
(*   "m"  two UTF-8 bytes, extends the previous cluster     (U+0301)       *)
(* String::len counts bytes, grapheme_indices counts clusters and the      *)
(* glyph layout yields one glyph per code point.                           *)
(*                                                                         *)
(* Numbers.  Pixel quantities (f32/f64 in the source) are integers here.   *)
(*                                                                         *)
(* Panics.  A handler that panics (unwrap of None, index out of range)     *)
(* aborts the process: status becomes "panic", the rest of the state is    *)
(* frozen and no further event is handled.                                 *)
(***************************************************************************)
EXTENDS Integers, Sequences, FiniteSets, TLC

VARIABLES text, cursor, scroll_offset, max_line_length, status, ev,
          size, scroll_offset_y, highlights, highlight_config,
          tree, counter, tree_scroll_offset, mouse_pos, code_views, active

\* text, cursor, scroll_offset, max_line_length, highlights,
\* highlight_config: the fields of Code;
\* scroll_offset_y: the field of Gutter; size: Renderer::size;
\* status: "ok" while the event loop runs; ev: the event handled last;
\* tree, counter, tree_scroll_offset: the fields tree, counter and
\* scroll_offset.y of FsTree; mouse_pos: the variable of main;
\* code_views, active: the fields of CodeViewTabs
vars == <<text, cursor, scroll_offset, max_line_length, status, ev,
          size, scroll_offset_y, highlights, highlight_config,
          tree, counter, tree_scroll_offset, mouse_pos, code_views, active>>

\* the state of the code view, and the state outside it: the file tree,
\* the mouse, the tabs
codeVars == <<text, cursor, scroll_offset, max_line_length, status, size,
              scroll_offset_y, highlights, highlight_config>>
elementVars ==
  <<tree, counter, tree_scroll_offset, mouse_pos, code_views, active>>

----------------------------------------------------------------------------
(* Bounds of the model *)

\* most lines a buffer holds (Enter is not taken beyond it)
MaxLines == 2
\* most code points a buffer holds (insert is not taken beyond it)
MaxChars == 3
\* most lines of a buffer that is scrolled
MaxViewLines == 5
\* a scroll event is not taken when it moves an offset further than this
MaxScroll == 4
\* most code points of a file that is loaded
MaxFileLen == 3
\* most letters of a file extension
MaxExtLen == 3
\* most events of a stream of the highlighter
MaxEvents == 6
\* most highlights open at a time in a stream of the highlighter
MaxDepth == 2

\* most entries of a file tree, the root included
MaxTreeEntries == 4
\* most levels of directories below the root of a file tree
MaxTreeDepth == 2
\* most tabs that are opened (add is not taken beyond it)
MaxTabs == 2

----------------------------------------------------------------------------
(* Text measurement (external collaborator: glyph layout of one line) *)

Alphabet == {"a", "e", "m"}

\* the line break and the carriage return of a file or a rope
LF == "lf"
CR == "cr"

\* char::len_utf8
Utf8Len(c) == IF c \in {"a", LF, CR, "u1b"} THEN 1 ELSE 2

\* Grapheme_Extend property: the code point never starts a cluster
\* unless it is the first of the line
GraphemeExtend(c) == c = "m"

\* horizontal advance of the glyph of c at the editor's scale
\* (glyph_bounds(..).width() is the same quantity)
Advance(c) == IF c = "a" THEN 2 ELSE IF c = "e" THEN 3 ELSE 1

\* line height in pixels
FontHeight == 2

RECURSIVE SumAdvance(_, _)
\* sum of the advances of the first n code points of line
SumAdvance(line, n) ==
  IF n = 0 THEN 0 ELSE SumAdvance(line, n - 1) + Advance(line[n])

\* x position of glyph number i (0-based) of a line laid out at origin x
GlyphX(line, i, origin) == origin + SumAdvance(line, i)

\* number of glyphs calculate_glyphs yields for a line
GlyphCount(line) == Len(line)

RECURSIVE ByteOffset(_, _)
\* byte offset of code point number i (0-based) of line
ByteOffset(line, i) ==
  IF i = 0 THEN 0 ELSE ByteOffset(line, i - 1) + Utf8Len(line[i])

\* String::len : length in bytes
StrLen(line) == ByteOffset(line, Len(line))

\* number of code points of a line
CharLen(line) == Len(line)

\* 0-based code point numbers at which a grapheme cluster starts
ClusterStarts(line) ==
  {i \in 0..(Len(line) - 1) : i = 0 \/ ~GraphemeExtend(line[i + 1])}

\* str::grapheme_indices(true): the byte offsets of the cluster starts,
\* in increasing order
grapheme_indices(line) ==
  LET starts == ClusterStarts(line)
      \* the k-th (1-based) smallest cluster start
      Nth(k) == CHOOSE i \in starts :
                  Cardinality({j \in starts : j < i}) = k - 1
  IN [k \in 1..Cardinality(starts) |-> ByteOffset(line, Nth(k))]

\* the code point number (0-based) that lies at byte offset b
CharAtByte(line, b) ==
  CHOOSE i \in 0..Len(line) : ByteOffset(line, i) = b

\* String::remove(idx): drop the code point at byte offset idx
StrRemove(line, idx) ==
  LET i == CharAtByte(line, idx)
  IN SubSeq(line, 1, i) \o SubSeq(line, i + 2, Len(line))

\* String::insert(idx, ch): put ch at byte offset idx
StrInsert(line, idx, ch) ==
  LET i == CharAtByte(line, idx)
  IN SubSeq(line, 1, i) \o <<ch>> \o SubSeq(line, i + 1, Len(line))

\* what remains of the line after String::split_off(idx)
SplitHead(line, idx) == SubSeq(line, 1, CharAtByte(line, idx))

\* what String::split_off(idx) returns
SplitTail(line, idx) == SubSeq(line, CharAtByte(line, idx) + 1, Len(line))

\* Vec::remove(i) on the vector of lines (0-based i)
VecRemove(lines, i) == SubSeq(lines, 1, i) \o SubSeq(lines, i + 2, Len(lines))

\* Vec::insert(i, x) on the vector of lines (0-based i)
VecInsert(lines, i, x) ==
  SubSeq(lines, 1, i) \o <<x>> \o SubSeq(lines, i + 1, Len(lines))

\* the measured width of one line: last glyph position plus its width,
\* nothing for a line without glyphs
line_length(line) ==
  IF GlyphCount(line) = 0 THEN 0
  ELSE GlyphX(line, GlyphCount(line) - 1, 0) + Advance(line[Len(line)])

RECURSIVE MaxWidth(_, _)
MaxWidth(lines, n) ==
  IF n = 0 THEN 0
  ELSE LET w == line_length(lines[n])
           m == MaxWidth(lines, n - 1)
       IN IF w > m THEN w ELSE m

\* max_line_length(lines, font, font_height)
MaxLineLength(lines) == MaxWidth(lines, Len(lines))

----------------------------------------------------------------------------
(* Cursor measurement *)

None == [some |-> FALSE, x |-> 0]
Some(v) == [some |-> TRUE, x |-> v]
unwrap_or(o, d) == IF o.some THEN o.x ELSE d

\* cursor_x_position that measures the end of a line without the width of
\* the last glyph
cursor_x_position_NoWidth(row, column, lines, origin) ==
  LET line == lines[row + 1]
  IN IF column < GlyphCount(line)
       THEN Some(GlyphX(line, column, origin))
     ELSE IF column # 0
       THEN IF column - 1 < GlyphCount(line)
              THEN Some(GlyphX(line, column - 1, origin))
              ELSE None
     ELSE None

\* cursor_x_position(row, column, text, font, font_height, offset);
\* the caller makes sure that row < Len(lines), otherwise &text[row] panics
cursor_x_position(row, column, lines, origin) ==
  LET line == lines[row + 1]
  IN IF column < GlyphCount(line)
       THEN Some(GlyphX(line, column, origin))
     ELSE IF column # 0
       THEN IF column - 1 < GlyphCount(line)
              THEN Some(GlyphX(line, column - 1, origin) + Advance(line[column]))
              ELSE None
     ELSE None

----------------------------------------------------------------------------
(* Key handlers.  A handler maps the state it is given to a record         *)
(* [text, cursor, ok]; ok = FALSE says that the handler panicked.          *)

Cur(r, c, x) == [row |-> r, column |-> c, x_offset |-> x]

Ok(lines, cur) == [text |-> lines, cursor |-> cur, ok |-> TRUE]
Panic(lines, cur) == [text |-> lines, cursor |-> cur, ok |-> FALSE]

\* SpecialUp with the column reset on row 0 left out
SpecialUp_KeepColumn(lines, cur, origin) ==
  IF cur.row # 0
    THEN LET r == cur.row - 1
         IN IF r >= Len(lines) THEN Panic(lines, cur)
            ELSE LET p == cursor_x_position(r, cur.column, lines, origin)
                 IN IF p.some
                      THEN Ok(lines, Cur(r, cur.column, p.x))
                      ELSE LET c == StrLen(lines[r + 1])
                           IN Ok(lines, Cur(r, c,
                                 unwrap_or(cursor_x_position(r, c, lines, origin), 0)))
    ELSE Ok(lines, Cur(cur.row, cur.column, 0))

\* the arm of input_special for VirtualKeyCode::Up
SpecialUp(lines, cur, origin) ==
  IF cur.row # 0
    THEN LET r == cur.row - 1
         IN IF r >= Len(lines) THEN Panic(lines, cur)
            ELSE LET p == cursor_x_position(r, cur.column, lines, origin)
                 IN IF p.some
                      THEN Ok(lines, Cur(r, cur.column, p.x))
                      ELSE LET c == StrLen(lines[r + 1])
                           IN Ok(lines, Cur(r, c,
                                 unwrap_or(cursor_x_position(r, c, lines, origin), 0)))
    ELSE Ok(lines, Cur(cur.row, 0, 0))

\* the arm of input_special for VirtualKeyCode::Left
SpecialLeft(lines, cur, origin) ==
  IF cur.column # 0
    THEN LET c == cur.column - 1
         IN IF cur.row >= Len(lines) THEN Panic(lines, cur)
            ELSE LET p == cursor_x_position(cur.row, c, lines, origin)
                 IN IF p.some THEN Ok(lines, Cur(cur.row, c, p.x))
                    ELSE Panic(lines, cur)
  ELSE IF cur.row # 0
    THEN LET r == cur.row - 1
         IN IF r >= Len(lines) THEN Panic(lines, cur)
            ELSE LET c == StrLen(lines[r + 1])
                 IN Ok(lines, Cur(r, c,
                       unwrap_or(cursor_x_position(r, c, lines, origin), 0)))
  ELSE Ok(lines, cur)

\* the arm of input_special for VirtualKeyCode::Down
SpecialDown(lines, cur, origin) ==
  IF cur.row # Len(lines)
    THEN LET r == cur.row + 1
         IN IF r >= Len(lines) THEN Panic(lines, cur)
            ELSE LET p == cursor_x_position(r, cur.column, lines, origin)
                 IN IF p.some
                      THEN Ok(lines, Cur(r, cur.column, p.x))
                      ELSE LET c == StrLen(lines[r + 1])
                           IN Ok(lines, Cur(r, c,
                                 unwrap_or(cursor_x_position(r, c, lines, origin), 0)))
    \* text[cursor.row] with cursor.row = text.len()
    ELSE Panic(lines, cur)

\* SpecialRight with the column reset of the wrap left out
SpecialRight_KeepColumn(lines, cur, origin) ==
  LET c == cur.column + 1
  IN IF cur.row >= Len(lines) THEN Panic(lines, cur)
     ELSE LET p == cursor_x_position(cur.row, c, lines, origin)
          IN IF p.some THEN Ok(lines, Cur(cur.row, c, p.x))
             ELSE Ok(lines, Cur(cur.row + 1, c, 0))

\* the arm of input_special for VirtualKeyCode::Right
SpecialRight(lines, cur, origin) ==
  LET c == cur.column + 1
  IN IF cur.row >= Len(lines) THEN Panic(lines, cur)
     ELSE LET p == cursor_x_position(cur.row, c, lines, origin)
          IN IF p.some THEN Ok(lines, Cur(cur.row, c, p.x))
             ELSE Ok(lines, Cur(cur.row + 1, 0, 0))

\* input_special with a Down that opens a new line after the last row
input_special_DownAppends(key, lines, cur, origin) ==
  CASE key = "Up" -> SpecialUp(lines, cur, origin)
    [] key = "Left" -> SpecialLeft(lines, cur, origin)
    [] key = "Down" ->
         IF cur.row + 1 = Len(lines)
           THEN Ok(Append(lines, <<>>), Cur(cur.row + 1, 0, 0))
           ELSE SpecialDown(lines, cur, origin)
    [] key = "Right" -> SpecialRight(lines, cur, origin)
    [] OTHER -> Ok(lines, cur)

\* input_special(size, key, text, cursor, font, font_height, offset,
\* scroll_offset): the glyphs are laid out at scroll_offset
input_special(key, lines, cur, origin) ==
  CASE key = "Up" -> SpecialUp(lines, cur, origin)
    [] key = "Left" -> SpecialLeft(lines, cur, origin)
    [] key = "Down" -> SpecialDown(lines, cur, origin)
    [] key = "Right" -> SpecialRight(lines, cur, origin)
    [] OTHER -> Ok(lines, cur)

----------------------------------------------------------------------------
(* Character input *)

\* the received characters the handler distinguishes
Backspace == "u7f"
Enter == "r"
\* the character that the Escape key sends
Esc == "u1b"

\* the arm of input_char for '\u{7f}'
CharBackspace(lines, cur, origin) ==
  IF cur.column # 0
    THEN IF cur.row >= Len(lines) THEN Panic(lines, cur)
         ELSE LET line == lines[cur.row + 1]
                  g == grapheme_indices(line)
              IN \* graphemes_indices.nth(cursor.column - 1).unwrap()
                 IF cur.column - 1 >= Len(g) THEN Panic(lines, cur)
                 ELSE LET index == g[cur.column]
                          lines2 == [lines EXCEPT ![cur.row + 1] =
                                       StrRemove(line, index)]
                      IN input_special("Left", lines2, cur, origin)
  ELSE IF cur.row # 0
    THEN \* text.remove(cursor.row)
         IF cur.row >= Len(lines) THEN Panic(lines, cur)
         ELSE LET removed == lines[cur.row + 1]
                  lines2 == VecRemove(lines, cur.row)
                  old == lines2[cur.row]
                  s1 == IF Len(removed) > 0
                          THEN input_special("Left",
                                 [lines2 EXCEPT ![cur.row] = old \o <<removed[1]>>],
                                 cur, origin)
                          ELSE Ok(lines2, cur)
                  s2 == IF s1.ok
                          THEN input_special("Left", s1.text, s1.cursor, origin)
                          ELSE s1
              IN IF ~s2.ok THEN s2
                 ELSE IF s2.cursor.row >= Len(s2.text) THEN Panic(s2.text, s2.cursor)
                 ELSE Ok([s2.text EXCEPT ![s2.cursor.row + 1] = old \o removed],
                         s2.cursor)
  ELSE Ok(lines, cur)

\* the arm of input_char for '\r'
CharEnter(lines, cur, origin) ==
  IF cur.row >= Len(lines) THEN Panic(lines, cur)
  ELSE LET line == lines[cur.row + 1]
           g == grapheme_indices(line)
       IN \* graphemes_indices.nth(cursor.column).unwrap()
          IF cur.column >= Len(g) THEN Panic(lines, cur)
          ELSE LET index == g[cur.column + 1]
                   lines2 == VecInsert(
                               [lines EXCEPT ![cur.row + 1] = SplitHead(line, index)],
                               cur.row + 1, SplitTail(line, index))
               IN input_special("Right", lines2, cur, origin)

\* the default arm of input_char
CharInsert(ch, lines, cur, origin) ==
  IF cur.row >= Len(lines) THEN Panic(lines, cur)
  ELSE LET line == lines[cur.row + 1]
           g == grapheme_indices(line)
       IN \* graphemes_indices.nth(cursor.column).unwrap()
          IF cur.column >= Len(g) THEN Panic(lines, cur)
          ELSE LET index == g[cur.column + 1]
                   lines2 == [lines EXCEPT ![cur.row + 1] =
                                StrInsert(line, index, ch)]
               IN input_special("Right", lines2, cur, origin)

\* input_char(size, ch, text, cursor, font, font_height, offset, scroll_offset)
input_char(ch, lines, cur, origin) ==
  CASE ch = Backspace -> CharBackspace(lines, cur, origin)
    [] ch = Enter -> CharEnter(lines, cur, origin)
    [] OTHER -> CharInsert(ch, lines, cur, origin)

----------------------------------------------------------------------------
(* Mouse click *)

\* click with the comparison position.x <= glyph position
click_AtOrLeft(x, y, lines, cur, scroll) ==
  LET line_idx == (y - scroll.y) \div FontHeight
  IN IF line_idx >= Len(lines) THEN Panic(lines, cur)
     ELSE LET line == lines[line_idx + 1]
              n == GlyphCount(line)
              right == {i \in 0..(n - 1) : x <= GlyphX(line, i, 0)}
              stop == CHOOSE i \in right : \A j \in right : i <= j
          IN IF right # {}
               THEN Ok(lines, Cur(line_idx, stop, GlyphX(line, stop, 0)))
             ELSE IF n > 0
               THEN Ok(lines, Cur(line_idx, n, GlyphX(line, n - 1, 0)))
             ELSE Ok(lines, Cur(line_idx, 0, cur.x_offset))

\* Code::click(position, screen_size): position is relative to the code area.
\* The line string of a rope line ends with its line break, which has no glyph.
click(x, y, lines, cur, scroll) ==
  LET line_idx == (y - scroll.y) \div FontHeight
  IN \* text.line(line)
     IF line_idx >= Len(lines) THEN Panic(lines, cur)
     ELSE LET line == lines[line_idx + 1]
              n == GlyphCount(line)
              right == {i \in 0..(n - 1) : x < GlyphX(line, i, 0)}
              \* the glyph at which the loop breaks
              stop == CHOOSE i \in right : \A j \in right : i <= j
          IN IF right # {}
               THEN Ok(lines, Cur(line_idx, stop, GlyphX(line, stop, 0)))
             ELSE IF n > 0
               THEN Ok(lines, Cur(line_idx, n, GlyphX(line, n - 1, 0)))
             ELSE Ok(lines, Cur(line_idx, 0, cur.x_offset))

----------------------------------------------------------------------------
(* Highlighting.  A highlighter event is a Source span in byte offsets, a  *)
(* HighlightStart with the number of a highlight name, or a HighlightEnd.  *)

Source(start, end) == [type |-> "Source", start |-> start, end |-> end]
HighlightStart(s) == [type |-> "HighlightStart", s |-> s]
HighlightEnd == [type |-> "HighlightEnd"]

RECURSIVE RopeChars(_, _)
\* the code points of the first n lines of a rope, each line but the last
\* of the rope followed by its line break
RopeChars(lines, n) ==
  IF n = 0 THEN <<>>
  ELSE RopeChars(lines, n - 1) \o lines[n]
         \o (IF n < Len(lines) THEN <<LF>> ELSE <<>>)

RECURSIVE byte_to_char_from(_, _, _, _)
\* the walk of byte_to_char: code point i starts at byte offset off
byte_to_char_from(chars, i, off, b) ==
  IF i = Len(chars) \/ b < off + Utf8Len(chars[i + 1]) THEN i
  ELSE byte_to_char_from(chars, i + 1, off + Utf8Len(chars[i + 1]), b)

\* Rope::byte_to_char on the code points of the rope: the code point that
\* holds byte b; the number of code points for b = length in bytes
byte_to_char(chars, b) == byte_to_char_from(chars, 0, 0, b)

\* a highlight: char_start, char_end and the name, if any
Span(start, end, name) == [start |-> start, end |-> end, name |-> name]

\* HighlightNames::try_from(s.0 as u8).ok()
HighlightNames == {"constant", "comment", "keyword"}
try_from(s) == IF s \in HighlightNames THEN Some(s) ELSE None

\* one iteration of the loop of Config::generate / generate_highlighting
generate_event(chars, st, event) ==
  CASE event.type = "Source" ->
         LET start == byte_to_char(chars, event.start)
             end == byte_to_char(chars, event.end)
         IN IF ~st.current_highlight.some
              THEN [st EXCEPT !.highlights = Append(@, Span(start, end, None))]
              ELSE [st EXCEPT !.current_range = <<start, end>>]
    [] event.type = "HighlightStart" ->
         [st EXCEPT !.current_highlight = try_from(event.s)]
    [] event.type = "HighlightEnd" ->
         [st EXCEPT !.highlights =
                      Append(@, Span(st.current_range[1], st.current_range[2],
                                     st.current_highlight)),
                    !.current_highlight = None]

RECURSIVE generate_loop(_, _, _)
generate_loop(chars, events, n) ==
  IF n = 0
    THEN [highlights |-> <<>>, current_range |-> <<0, 0>>,
          current_highlight |-> None]
    ELSE generate_event(chars, generate_loop(chars, events, n - 1), events[n])

\* Config::generate(rope) and Code::generate_highlighting, given the code
\* points of the rope and the events of the highlighter: the new highlights
generate(chars, events) == generate_loop(chars, events, Len(events)).highlights

\* Highlighter::highlight(config, source) (external collaborator) on the
\* buffers of the editor model, whose text matches no highlight query: one
\* Source event for the whole source, none for an empty source
highlight(chars) ==
  LET bytes == StrLen(chars)
  IN IF bytes = 0 THEN <<>> ELSE <<Source(0, bytes)>>

\* HighlightConfiguration::new(language, highlights_query, ..).unwrap() on
\* the grammars and queries that the grammar crates ship
HighlightConfiguration_new(language, query) ==
  [language |-> language, query |-> query]

\* Code::generate_highlighting
generate_highlighting(lines) ==
  LET chars == RopeChars(lines, Len(lines))
  IN generate(chars, highlight(chars))

----------------------------------------------------------------------------
(* Scrolling *)

Abs(v) == IF v < 0 THEN -v ELSE v
Min(a, b) == IF a < b THEN a ELSE b
Max(a, b) == IF a > b THEN a ELSE b

\* the range of usize, reduced from 2^64 to what the checker's integers
\* hold; any range far beyond the scroll offsets gives the same states
UsizeModulus == 2^24

\* text.len_lines() - 3 in usize.  With fewer than 3 lines the subtraction
\* overflows: a build with overflow checks panics (None), a build without
\* them wraps around.
len_lines_minus_3(n, overflow_checks) ==
  IF n >= 3 THEN Some(n - 3)
  ELSE IF overflow_checks THEN None
  ELSE Some(UsizeModulus + n - 3)

\* Gutter::scroll(offset, screen_size): the new scroll_offset_y
Gutter_scroll(dy, y, n, overflow_checks) ==
  LET d == len_lines_minus_3(n, overflow_checks)
  IN IF ~d.some THEN [ok |-> FALSE, y |-> y]
     ELSE [ok |-> TRUE, y |-> Max(Min(y + dy, 0), -(d.x * FontHeight))]

\* Code_scroll that moves both axes on every event
Code_scroll_BothAxes(dx, dy, scroll, width, mll, n, overflow_checks) ==
  LET d == len_lines_minus_3(n, overflow_checks)
  IN IF ~d.some THEN [ok |-> FALSE, x |-> scroll.x, y |-> scroll.y]
     ELSE [ok |-> TRUE, x |-> Min(Max(scroll.x - dx, width - mll), 0),
           y |-> Max(Min(scroll.y + dy, 0), -(d.x * FontHeight))]

\* Code::scroll(offset, screen_size): the new scroll_offset
Code_scroll(dx, dy, scroll, width, mll, n, overflow_checks) ==
  IF Abs(dx) > Abs(dy)
    THEN [ok |-> TRUE, x |-> Min(Max(scroll.x - dx, width - mll), 0),
          y |-> scroll.y]
    ELSE LET d == len_lines_minus_3(n, overflow_checks)
         IN IF ~d.some THEN [ok |-> FALSE, x |-> scroll.x, y |-> scroll.y]
            ELSE [ok |-> TRUE, x |-> scroll.x,
                  y |-> Max(Min(scroll.y + dy, 0), -(d.x * FontHeight))]

\* CodeView::scroll(offset, size): the gutter, then the code area
CodeView_scroll(dx, dy, scroll, gutter_y, width, mll, n, overflow_checks) ==
  LET g == Gutter_scroll(dy, gutter_y, n, overflow_checks)
      c == Code_scroll(dx, dy, scroll, width, mll, n, overflow_checks)
  IN [ok |-> g.ok /\ c.ok, x |-> c.x, y |-> c.y, gutter_y |-> g.y]

\* Renderer_resize that scrolls one pixel down after the resize
Renderer_resize_Nudge(s, scroll, gutter_y, mll, n, overflow_checks) ==
  CodeView_scroll(0, -1, scroll, gutter_y, s.width, mll, n, overflow_checks)

\* Renderer::resize(size) on the code view: element.resize(size), which
\* changes rectangles and Code::dimensions.width only, then
\* element.scroll((0, 0), size)
Renderer_resize(s, scroll, gutter_y, mll, n, overflow_checks) ==
  CodeView_scroll(0, 0, scroll, gutter_y, s.width, mll, n, overflow_checks)

----------------------------------------------------------------------------
(* Redraw: the lines on the screen *)

CeilDiv(a, b) == (a + b - 1) \div b

\* Code::redraw and Gutter::redraw: the first line drawn at vertical
\* offset y, floor(-y / font_height) cast to usize
upper_bound(y) == IF y > 0 THEN 0 ELSE (-y) \div FontHeight

\* Code::redraw and Gutter::redraw: the line after the last line drawn, for
\* an area of the given height and a buffer of n lines
lower_bound(y, height, n) ==
  Min(upper_bound(y) + CeilDiv(height, FontHeight), n)

\* Rope::line_to_char: the number of code points before line k (0-based),
\* all code points for k = the number of lines
line_to_char(lines, k) == Len(RopeChars(lines, k))

RECURSIVE first_kept(_, _, _)
\* skip_while(end <= start_char): the first span from i on that is kept
first_kept(hl, i, start_char) ==
  IF i > Len(hl) \/ hl[i].end > start_char THEN i
  ELSE first_kept(hl, i + 1, start_char)

RECURSIVE taken_text(_, _, _, _, _)
\* take_while(end <= end_char) and the slices of the spans taken, from span
\* i on: the texts of the runs, one after the other
taken_text(chars, hl, i, start_char, end_char) ==
  IF i > Len(hl) \/ hl[i].end > end_char THEN <<>>
  ELSE SubSeq(chars, Max(hl[i].start, start_char) + 1,
              Min(hl[i].end, end_char))
         \o taken_text(chars, hl, i + 1, start_char, end_char)

\* Code::generate_glyph_text: the texts of the runs of the lines
\* start_line .. end_line - 1, one after the other
generate_glyph_text(lines, hl, start_line, end_line) ==
  LET start_char == line_to_char(lines, start_line)
      end_char == line_to_char(lines, end_line)
  IN taken_text(RopeChars(lines, Len(lines)), hl,
                first_kept(hl, 1, start_char), start_char, end_char)

----------------------------------------------------------------------------
(* The cursor rectangle.  Positions are relative to the top left corner of *)
(* the code view.                                                          *)

\* Code::dimensions.x: the width of the gutter
GutterWidth == 3

\* input_special: the position given to the rectangle after a cursor key,
\* measured from the bottom left corner of the window
input_special_rect(height, offset_x, scroll, cur) ==
  [x |-> offset_x + scroll.x + cur.x_offset,
   y |-> height - scroll.y - FontHeight - cur.row * FontHeight]

\* Rectangle::calc_size maps y = 0 to the bottom of the window: the top of
\* a cursor rectangle placed at y, measured from the top of the window
rect_top(height, y) == height - (y + FontHeight)

\* Code::scroll: the position given to the rectangle after a scroll event
Code_scroll_rect(scroll, cur) ==
  [x |-> GutterWidth + scroll.x + cur.x_offset,
   y |-> scroll.y + cur.row * FontHeight]

----------------------------------------------------------------------------
(* The file tree.  A TreeEntry is a record [inset, sub_entry, folded]; the  *)
(* names and the paths of the entries play no part in the handlers.         *)

\* sub_entry of a file, and of a directory with the given entries
NoEntries == [some |-> FALSE, x |-> <<>>]
SomeEntries(entries) == [some |-> TRUE, x |-> entries]

\* TreeEntry::gen, path.is_file(): the entry of a file
FileEntry(inset) ==
  [inset |-> inset, sub_entry |-> NoEntries, folded |-> FALSE]

\* TreeEntry::gen, path.is_dir(): the entry of a directory, folded
DirEntry(inset, entries) ==
  [inset |-> inset, sub_entry |-> SomeEntries(entries), folded |-> TRUE]

\* the sort of TreeEntry::gen: no file before a directory
DirsFirst(entries) ==
  \A i \in 1..(Len(entries) - 1) :
    entries[i].sub_entry.some \/ ~entries[i + 1].sub_entry.some

RECURSIVE gen(_, _, _)
\* TreeEntry::gen(path, inset, ignore_set): the lists it can return for a
\* directory that holds n entries in all, nested at most depth levels
gen(n, inset, depth) ==
  IF n = 0 THEN {<<>>}
  ELSE UNION
    {{s \in {<<e>> \o rest :
               e \in (IF k = 1 THEN {FileEntry(inset)} ELSE {})
                       \cup (IF depth > 0
                               THEN {DirEntry(inset, sub) :
                                       sub \in gen(k - 1, inset + 1,
                                                   depth - 1)}
                               ELSE {}),
               rest \in gen(n - k, inset, depth)} : DirsFirst(s)} :
       k \in 1..n}

\* TreeEntry::new(path, ignore_set): the root, unfolded
TreeEntry_new(entries) ==
  [inset |-> 0, sub_entry |-> SomeEntries(entries), folded |-> FALSE]

\* the closures that FsTree::redraw and FsTree::click give to walk
RedrawClosure == [kind |-> "redraw", index |-> 0]
ClickClosure(index) == [kind |-> "click", index |-> index]

\* one call of the closure, made when its counter (index in redraw, i in
\* click) is i: the entry afterwards; the closure returns !entry.folded
Callback(cb, entry, i) ==
  IF cb.kind = "click" /\ cb.index = i /\ entry.sub_entry.some
    THEN [entry EXCEPT !.folded = ~@]
    ELSE entry

RECURSIVE walk(_, _, _)
RECURSIVE walk_entries(_, _, _, _)
\* TreeEntry::walk(cb), the closure's counter being i at the call: the
\* entry afterwards and the number of entries visited
walk(entry, cb, i) ==
  LET e == Callback(cb, entry, i)
      depth_continue == ~e.folded
  IN IF e.sub_entry.some /\ depth_continue
       THEN LET r == walk_entries(e.sub_entry.x, cb, i + 1, 1)
            IN [entry |-> [e EXCEPT !.sub_entry = SomeEntries(r.entries)],
                counter |-> 1 + r.counter]
       ELSE [entry |-> e, counter |-> 1]

\* the loop of walk_inner over the entries k, k + 1, .. of a directory
walk_entries(entries, cb, i, k) ==
  IF k > Len(entries) THEN [entries |-> entries, counter |-> 0]
  ELSE LET r == walk(entries[k], cb, i)
           rest == walk_entries([entries EXCEPT ![k] = r.entry], cb,
                                i + r.counter, k + 1)
       IN [entries |-> rest.entries, counter |-> r.counter + rest.counter]

\* FsTree::scroll(offset, size): the new scroll_offset.y; counter is an
\* i32, so counter - 3 is negative for fewer than 3 entries
FsTree_scroll(dy, y, cnt) ==
  Max(Min(y + dy, 0), -((cnt - 3) * FontHeight))

\* FsTree::click(position): the tree afterwards and the new counter; the
\* cast to usize takes a negative quotient to 0
FsTree_click(y, t, scroll_y) ==
  LET index == IF y - scroll_y < 0 THEN 0 ELSE (y - scroll_y) \div FontHeight
  IN walk(t, ClickClosure(index), 0)

\* FsTree::redraw: the new counter
FsTree_redraw(t) == walk(t, RedrawClosure, 0).counter

----------------------------------------------------------------------------
(* The state machine *)

RECURSIVE TotalChars(_, _)
TotalChars(lines, n) ==
  IF n = 0 THEN 0 ELSE TotalChars(lines, n - 1) + Len(lines[n])

RECURSIVE Buffers(_, _)
\* the buffers of exactly l lines that hold at most c code points
Buffers(l, c) ==
  IF l = 0 THEN {<<>>}
  ELSE UNION {{<<ln>> \o rest : ln \in [1..k -> Alphabet],
                                rest \in Buffers(l - 1, c - k)} : k \in 0..c}

\* the contents a file can have within the bounds
InitialBuffers == UNION {Buffers(l, MaxChars) : l \in 1..MaxLines}

Keys == {"Up", "Down", "Left", "Right", "Escape"}

\* click positions, relative to the code area
ClickXs == {0, 2, 3, 5, 9}
ClickYs == {r * FontHeight + 1 : r \in 0..MaxLines}

Event(kind, arg) == [kind |-> kind, arg |-> arg]

\* the sizes the window takes
ScreenSizes == {[width |-> 4, height |-> 6], [width |-> 8, height |-> 4]}

\* the size of the window when the editor starts
InitialSize == [width |-> 4, height |-> 6]

\* the heights the code area and the gutter are built with
AreaHeights == {s.height : s \in ScreenSizes}

\* FsTree::new on a directory with one file, main's mouse_pos, and
\* CodeViewTabs::new: the state around a code view taken by itself
InitElements ==
  /\ tree = TreeEntry_new(<<FileEntry(1)>>)
  /\ counter = 0
  /\ tree_scroll_offset = 0
  /\ mouse_pos = [x |-> 0, y |-> 0]
  /\ code_views = <<>>
  /\ active = None

\* Code::new: cursor (0, 0), no scroll, the widest line measured
Init ==
  /\ InitElements
  /\ text \in InitialBuffers
  /\ cursor = Cur(0, 0, 0)
  /\ scroll_offset = [x |-> 0, y |-> 0]
  /\ max_line_length = MaxLineLength(text)
  /\ status = "ok"
  /\ ev = Event("init", "")
  /\ size = InitialSize
  /\ scroll_offset_y = 0
  /\ highlights = <<>>
  /\ highlight_config =
       Some(HighlightConfiguration_new("rust", "HIGHLIGHT_QUERY"))

\* the process aborts inside the handler of event e
Abort(e) ==
  /\ status' = "panic"
  /\ ev' = e
  /\ UNCHANGED <<text, cursor, scroll_offset, max_line_length,
                 size, scroll_offset_y, highlights, highlight_config>>

\* WindowEvent::KeyboardInput, pressed: Code::input_special
KeyboardInput(key) ==
  /\ UNCHANGED elementVars
  /\ status = "ok"
  /\ LET r == input_special(key, text, cursor, scroll_offset.x)
     IN IF r.ok
          THEN /\ text' = r.text
               /\ cursor' = r.cursor
               /\ highlights' = generate_highlighting(text')
               /\ ev' = Event("key", key)
               /\ UNCHANGED <<scroll_offset, max_line_length, status,
                              size, scroll_offset_y, highlight_config>>
          ELSE Abort(Event("key", key))

\* ReceivedCharacter with the highlights of the buffer before the edit
ReceivedCharacter_Stale(ch) ==
  /\ UNCHANGED elementVars
  /\ status = "ok"
  /\ ch \notin {Backspace, Enter} => TotalChars(text, Len(text)) < MaxChars
  /\ ch = Enter => Len(text) < MaxLines
  /\ LET r == input_char(ch, text, cursor, scroll_offset.x)
     IN IF r.ok
          THEN /\ text' = r.text
               /\ cursor' = r.cursor
               /\ max_line_length' = MaxLineLength(text')
               /\ highlights' = generate_highlighting(text)
               /\ ev' = Event("char", ch)
               /\ UNCHANGED <<scroll_offset, status, size, scroll_offset_y,
                              highlight_config>>
          ELSE Abort(Event("char", ch))

\* WindowEvent::ReceivedCharacter: Code::input_char
ReceivedCharacter(ch) ==
  /\ UNCHANGED elementVars
  /\ status = "ok"
  /\ ch \notin {Backspace, Enter} => TotalChars(text, Len(text)) < MaxChars
  /\ ch = Enter => Len(text) < MaxLines
  /\ LET r == input_char(ch, text, cursor, scroll_offset.x)
     IN IF r.ok
          THEN /\ text' = r.text
               /\ cursor' = r.cursor
               /\ max_line_length' = MaxLineLength(text')
               /\ highlights' = generate_highlighting(text')
               /\ ev' = Event("char", ch)
               /\ UNCHANGED <<scroll_offset, status, size, scroll_offset_y,
                              highlight_config>>
          ELSE Abort(Event("char", ch))

\* WindowEvent::MouseInput, pressed, inside the code area: Code::click
MouseInput(x, y) ==
  /\ UNCHANGED elementVars
  /\ status = "ok"
  /\ LET r == click(x, y, text, cursor, scroll_offset)
     IN IF r.ok
          THEN /\ cursor' = r.cursor
               /\ ev' = Event("click", "")
               /\ UNCHANGED <<text, scroll_offset, max_line_length, status,
                              size, scroll_offset_y, highlights,
                              highlight_config>>
          ELSE Abort(Event("click", ""))

Next ==
  \/ \E key \in Keys : KeyboardInput(key)
  \/ \E ch \in Alphabet \cup {Backspace, Enter} : ReceivedCharacter(ch)
  \/ \E x \in ClickXs, y \in ClickYs : MouseInput(x, y)

Spec == Init /\ [][Next]_vars

----------------------------------------------------------------------------
(* The view: scroll, resize and click on buffers of up to MaxViewLines lines *)

\* the lines of the scrolled buffers: empty, narrow, wider than the window
ViewLineSet == {<<>>, <<"a", "e">>, <<"e", "a", "e", "a">>}

\* the scrolled buffers: one line content in alternation with a short line
ViewBuffers ==
  {[i \in 1..n |-> IF i % 2 = 1 THEN l ELSE <<"a">>] :
     n \in 1..MaxViewLines, l \in ViewLineSet}

\* the positions of the clicks on a scrolled buffer: left of, inside and
\* right of the text, in the first and the second visible line
ViewClickXs == {0, 3, 9}
ViewClickYs == {1, FontHeight + 1}

\* the deltas of the scroll events: none, down, up, mostly right with a
\* vertical part, mostly left with a vertical part, a tie
ScrollDeltas == {<<0, 0>>, <<0, -3>>, <<0, 2>>, <<3, -2>>, <<-2, 1>>, <<2, 2>>}

InitView ==
  /\ InitElements
  /\ text \in ViewBuffers
  /\ cursor = Cur(0, 0, 0)
  /\ scroll_offset = [x |-> 0, y |-> 0]
  /\ max_line_length = MaxLineLength(text)
  /\ status = "ok"
  /\ ev = Event("init", "")
  /\ size \in ScreenSizes
  /\ scroll_offset_y = 0
  /\ highlights = <<>>
  /\ highlight_config =
       Some(HighlightConfiguration_new("rust", "HIGHLIGHT_QUERY"))

\* WindowEvent::MouseWheel over the code view: Renderer::scroll
MouseWheel(dx, dy, overflow_checks) ==
  /\ UNCHANGED elementVars
  /\ status = "ok"
  /\ LET r == CodeView_scroll(dx, dy, scroll_offset, scroll_offset_y,
                              size.width, max_line_length, Len(text),
                              overflow_checks)
     IN IF r.ok
          THEN /\ r.y >= -MaxScroll
               /\ r.gutter_y >= -MaxScroll
               /\ scroll_offset' = [x |-> r.x, y |-> r.y]
               /\ scroll_offset_y' = r.gutter_y
               /\ ev' = Event("scroll", <<dx, dy>>)
               /\ UNCHANGED <<text, cursor, max_line_length, status, size,
                              highlights, highlight_config>>
          ELSE Abort(Event("scroll", <<dx, dy>>))

\* WindowEvent::Resized: Renderer::resize
Resized(s, overflow_checks) ==
  /\ UNCHANGED elementVars
  /\ status = "ok"
  /\ LET r == Renderer_resize(s, scroll_offset, scroll_offset_y,
                              max_line_length, Len(text), overflow_checks)
     IN IF r.ok
          THEN /\ size' = s
               /\ scroll_offset' = [x |-> r.x, y |-> r.y]
               /\ scroll_offset_y' = r.gutter_y
               /\ ev' = Event("resize", s)
               /\ UNCHANGED <<text, cursor, max_line_length, status,
                              highlights, highlight_config>>
          ELSE Abort(Event("resize", s))

NextView ==
  \/ \E d \in ScrollDeltas, oc \in BOOLEAN : MouseWheel(d[1], d[2], oc)
  \/ \E s \in ScreenSizes, oc \in BOOLEAN : Resized(s, oc)
  \/ \E x \in ViewClickXs, y \in ViewClickYs : MouseInput(x, y)

SpecView == InitView /\ [][NextView]_vars

----------------------------------------------------------------------------
(* The highlighter: Config::generate on the event streams of one rope *)

\* the rope that is highlighted: a two-byte code point, a line break, a letter
HighlightRope == <<<<"e">>, <<"a">>>>

\* the byte offsets at which a code point of the rope starts, and its length
CharBoundaries(chars) == {ByteOffset(chars, i) : i \in 0..Len(chars)}

\* the highlight names the streams use
StreamNames == {"comment", "keyword"}

RECURSIVE Streams(_, _, _, _)
\* the ends of the event streams of the highlighter for a source of the
\* given byte boundaries: the Source events tile the source from byte p on,
\* d highlights are open, at most n events follow
Streams(bounds, p, d, n) ==
  (IF d = 0 /\ \A q \in bounds : q <= p THEN {<<>>} ELSE {})
  \cup (IF n = 0 THEN {}
        ELSE UNION {{<<Source(p, q)>> \o rest :
                       rest \in Streams(bounds, q, d, n - 1)} :
                    q \in {b \in bounds : b > p}})
  \cup (IF n = 0 \/ d = MaxDepth THEN {}
        ELSE UNION {{<<HighlightStart(name)>> \o rest :
                       rest \in Streams(bounds, p, d + 1, n - 1)} :
                    name \in StreamNames})
  \cup (IF n = 0 \/ d = 0 THEN {}
        ELSE {<<HighlightEnd>> \o rest :
                rest \in Streams(bounds, p, d - 1, n - 1)})

\* the streams in which every highlight encloses a Source event
EventStreams(chars) ==
  {es \in Streams(CharBoundaries(chars), 0, 0, MaxEvents) :
     \A i \in 1..(Len(es) - 1) :
       ~(es[i].type = "HighlightStart" /\ es[i + 1].type = "HighlightEnd")}

\* a rope and the events the highlighter gives for it
InitHighlight ==
  /\ InitElements
  /\ text = HighlightRope
  /\ cursor = Cur(0, 0, 0)
  /\ scroll_offset = [x |-> 0, y |-> 0]
  /\ max_line_length = MaxLineLength(text)
  /\ status = "ok"
  /\ ev \in {Event("highlight", es) :
               es \in EventStreams(RopeChars(text, Len(text)))}
  /\ size = InitialSize
  /\ scroll_offset_y = 0
  /\ highlights = <<>>
  /\ highlight_config =
       Some(HighlightConfiguration_new("rust", "HIGHLIGHT_QUERY"))

\* Config::generate consumes the events
Generate ==
  /\ UNCHANGED elementVars
  /\ status = "ok"
  /\ ev.kind = "highlight"
  /\ highlights' = generate(RopeChars(text, Len(text)), ev.arg)
  /\ ev' = Event("generated", ev.arg)
  /\ UNCHANGED <<text, cursor, scroll_offset, max_line_length, status, size,
                 scroll_offset_y, highlight_config>>

NextHighlight == Generate

SpecHighlight == InitHighlight /\ [][NextHighlight]_vars

----------------------------------------------------------------------------
(* Editing a scrolled buffer: keys, characters and scroll events on buffers *)
(* that are higher and wider than the window                               *)

\* the number of lines of the buffer that is edited while it is scrolled
EditLines == 4

\* the edited buffer: a line wider than the window, then empty lines
EditBuffers ==
  {[i \in 1..EditLines |-> IF i = 1 THEN <<"a", "e">> ELSE <<>>]}

EditKeys == {"Down", "Left", "Right", "Escape"}
EditChars == {Esc, Backspace}

\* the deltas of the scroll events: down, mostly right, mostly left
EditScrollDeltas == {<<0, -3>>, <<3, -2>>, <<-2, 1>>}

InitEdit ==
  /\ InitElements
  /\ text \in EditBuffers
  /\ cursor = Cur(0, 0, 0)
  /\ scroll_offset = [x |-> 0, y |-> 0]
  /\ max_line_length = MaxLineLength(text)
  /\ status = "ok"
  /\ ev = Event("init", "")
  /\ size = InitialSize
  /\ scroll_offset_y = 0
  /\ highlights = <<>>
  /\ highlight_config =
       Some(HighlightConfiguration_new("rust", "HIGHLIGHT_QUERY"))

NextEdit ==
  \/ \E key \in EditKeys : KeyboardInput(key)
  \/ \E ch \in EditChars : ReceivedCharacter(ch)
  \/ \E d \in EditScrollDeltas, oc \in BOOLEAN : MouseWheel(d[1], d[2], oc)

SpecEdit == InitEdit /\ [][NextEdit]_vars

----------------------------------------------------------------------------
(* Loading a file: CodeView::new splits the content into lines *)

\* a line without the carriage return it ends with, if any
strip_cr(line) ==
  IF Len(line) > 0 /\ line[Len(line)] = CR
    THEN SubSeq(line, 1, Len(line) - 1)
    ELSE line

RECURSIVE str_lines(_, _)
\* str::lines: the pieces that end at a line feed, without the line feed and
\* a carriage return before it, then the rest if it is not empty.  Whether
\* a carriage return that ends the rest is removed depends on the version of
\* the standard library (strip_bare_cr).
str_lines(t, strip_bare_cr) ==
  IF t = <<>> THEN <<>>
  ELSE IF \E i \in 1..Len(t) : t[i] = LF
    THEN LET i == CHOOSE i \in 1..Len(t) :
                    t[i] = LF /\ \A j \in 1..(i - 1) : t[j] # LF
         IN <<strip_cr(SubSeq(t, 1, i - 1))>>
              \o str_lines(SubSeq(t, i + 1, Len(t)), strip_bare_cr)
    ELSE <<IF strip_bare_cr THEN strip_cr(t) ELSE t>>

\* str::ends_with('\n')
ends_with_newline(t) == Len(t) > 0 /\ t[Len(t)] = LF

\* CodeView::new: the lines of the buffer for the content t of a file
CodeView_new(t, strip_bare_cr) ==
  LET split_text == str_lines(t, strip_bare_cr)
  IN IF ends_with_newline(t) THEN Append(split_text, <<>>) ELSE split_text

\* the contents of the files that are loaded
FileContents ==
  UNION {[1..n -> {"a", "e", LF, CR}] : n \in 0..MaxFileLen}

\* CodeViewTabs::add has read the content of a file
InitLoad ==
  /\ InitElements
  /\ text = <<>>
  /\ cursor = Cur(0, 0, 0)
  /\ scroll_offset = [x |-> 0, y |-> 0]
  /\ max_line_length = 0
  /\ status = "ok"
  /\ ev \in {Event("file", t) : t \in FileContents}
  /\ size = InitialSize
  /\ scroll_offset_y = 0
  /\ highlights = <<>>
  /\ highlight_config =
       Some(HighlightConfiguration_new("rust", "HIGHLIGHT_QUERY"))

\* CodeViewTabs::add builds the code view of the file
Load(strip_bare_cr) ==
  /\ UNCHANGED elementVars
  /\ status = "ok"
  /\ ev.kind = "file"
  /\ text' = CodeView_new(ev.arg, strip_bare_cr)
  /\ max_line_length' = MaxLineLength(text')
  /\ ev' = Event("loaded", ev.arg)
  /\ UNCHANGED <<cursor, scroll_offset, status, size, scroll_offset_y,
                 highlights, highlight_config>>

NextLoad == \E strip_bare_cr \in BOOLEAN : Load(strip_bare_cr)

SpecLoad == InitLoad /\ [][NextLoad]_vars

----------------------------------------------------------------------------
(* The highlight configuration of a file extension *)

\* config_from_extension with no configuration for jsx
config_from_extension_NoJsx(ext) ==
  IF ~ext.some THEN None
  ELSE LET e == ext.x
           config ==
             CASE e \in {<<"c", "p", "p">>, <<"c", "x", "x">>, <<"c", "c">>} ->
             Some(HighlightConfiguration_new("cpp", "HIGHLIGHT_QUERY"))
          [] e \in {<<"j", "a", "v", "a">>} ->
             Some(HighlightConfiguration_new("java", "HIGHLIGHT_QUERY"))
          [] e \in {<<"j", "s">>, <<"c", "j", "s">>, <<"m", "j", "s">>} ->
             Some(HighlightConfiguration_new("javascript", "HIGHLIGHT_QUERY"))
          [] e \in {<<"m", "l">>} ->
             Some(HighlightConfiguration_new("ocaml", "HIGHLIGHT_QUERY"))
          [] e \in {<<"m", "l", "i">>} ->
             Some(HighlightConfiguration_new("ocaml_interface", "HIGHLIGHT_QUERY"))
          [] e \in {<<"p", "y">>} ->
             Some(HighlightConfiguration_new("python", "HIGHLIGHT_QUERY"))
          [] e \in {<<"r", "s">>} ->
             Some(HighlightConfiguration_new("rust", "HIGHLIGHT_QUERY"))
          [] e \in {<<"t", "s">>} ->
             Some(HighlightConfiguration_new("typescript", "HIGHLIGHT_QUERY"))
          [] e \in {<<"t", "s", "x">>} ->
             Some(HighlightConfiguration_new("tsx", "HIGHLIGHT_QUERY"))
          [] OTHER -> None
       IN IF config.some
            THEN Some([config |-> config.x, highlights |-> <<>>])
            ELSE None

\* config_from_extension(ext), ext the letters of the extension if any
config_from_extension(ext) ==
  IF ~ext.some THEN None
  ELSE LET e == ext.x
           config ==
             CASE e \in {<<"c", "p", "p">>, <<"c", "x", "x">>, <<"c", "c">>} ->
             Some(HighlightConfiguration_new("cpp", "HIGHLIGHT_QUERY"))
          [] e \in {<<"j", "a", "v", "a">>} ->
             Some(HighlightConfiguration_new("java", "HIGHLIGHT_QUERY"))
          [] e \in {<<"j", "s">>, <<"c", "j", "s">>, <<"m", "j", "s">>} ->
             Some(HighlightConfiguration_new("javascript", "HIGHLIGHT_QUERY"))
          [] e \in {<<"j", "s", "x">>} ->
             Some(HighlightConfiguration_new("javascript", "JSX_HIGHLIGHT_QUERY"))
          [] e \in {<<"m", "l">>} ->
             Some(HighlightConfiguration_new("ocaml", "HIGHLIGHT_QUERY"))
          [] e \in {<<"m", "l", "i">>} ->
             Some(HighlightConfiguration_new("ocaml_interface", "HIGHLIGHT_QUERY"))
          [] e \in {<<"p", "y">>} ->
             Some(HighlightConfiguration_new("python", "HIGHLIGHT_QUERY"))
          [] e \in {<<"r", "s">>} ->
             Some(HighlightConfiguration_new("rust", "HIGHLIGHT_QUERY"))
          [] e \in {<<"t", "s">>} ->
             Some(HighlightConfiguration_new("typescript", "HIGHLIGHT_QUERY"))
          [] e \in {<<"t", "s", "x">>} ->
             Some(HighlightConfiguration_new("tsx", "HIGHLIGHT_QUERY"))
          [] OTHER -> None
       IN IF config.some
            THEN Some([config |-> config.x, highlights |-> <<>>])
            ELSE None

\* the letters of the extensions
ExtLetters ==
  {"a", "c", "i", "j", "l", "m", "p", "r", "s", "t", "v", "x", "y"}

\* the extensions a path can have: every word up to MaxExtLen, and java
Extensions ==
  UNION {[1..n -> ExtLetters] : n \in 0..MaxExtLen} \cup {<<"j", "a", "v", "a">>}

\* Path::extension of a path without extension
NoExtension == [x |-> <<>>, some |-> FALSE]

\* a path with or without an extension
InitConfig ==
  /\ InitElements
  /\ text = <<<<>>>>
  /\ cursor = Cur(0, 0, 0)
  /\ scroll_offset = [x |-> 0, y |-> 0]
  /\ max_line_length = 0
  /\ status = "ok"
  /\ ev \in {Event("ext", e) :
               e \in {NoExtension} \cup {Some(w) : w \in Extensions}}
  /\ size = InitialSize
  /\ scroll_offset_y = 0
  /\ highlights = <<>>
  /\ highlight_config = None

\* the configuration of the extension is asked for
Configure ==
  /\ UNCHANGED elementVars
  /\ status = "ok"
  /\ ev.kind = "ext"
  /\ LET r == config_from_extension(ev.arg)
     IN /\ highlight_config' = IF r.some THEN Some(r.x.config) ELSE None
        /\ highlights' = IF r.some THEN r.x.highlights ELSE highlights
  /\ ev' = Event("configured", ev.arg)
  /\ UNCHANGED <<text, cursor, scroll_offset, max_line_length, status, size,
                 scroll_offset_y>>

NextConfig == Configure

SpecConfig == InitConfig /\ [][NextConfig]_vars

----------------------------------------------------------------------------
(* The elements of the window and the tabs.  A Dimensions is a record       *)
(* [x, y, width, height]; a view of the tabs is a record [rect, code_view]  *)
(* of the Dimensions of its tab and the state of its CodeView.              *)

TAB_HEIGHT == 50
TAB_PADDING == 15

Position(x, y) == [x |-> x, y |-> y]
NoPosition == [some |-> FALSE, x |-> Position(0, 0)]

\* Dimensions::contains(position): the position relative to the origin
Dimensions_contains(d, position) ==
  IF position.x >= d.x /\ position.y >= d.y
    THEN IF position.x <= d.x + d.width /\ position.y <= d.y + d.height
           THEN Some(Position(position.x - d.x, position.y - d.y))
           ELSE NoPosition
    ELSE NoPosition

\* Renderer::new: 20% of the window for the file tree
tree_width(s) == (s.width * 20) \div 100

\* Renderer::new: the Dimensions given to CodeViewTabs::new
CodeViewTabs_dimensions(s) ==
  [x |-> tree_width(s), y |-> 0, width |-> s.width - tree_width(s),
   height |-> s.height]

\* CodeViewTabs::new: the Dimensions of tabs_container
tabs_container(s) ==
  [CodeViewTabs_dimensions(s) EXCEPT !.height = TAB_HEIGHT]

\* CodeViewTabs::add: the Dimensions given to CodeView::new
CodeView_dimensions(s) ==
  [CodeViewTabs_dimensions(s) EXCEPT !.y = @ + TAB_HEIGHT,
                                     !.height = @ - TAB_HEIGHT]

\* CodeView::new and Code::new: the state of the view of a buffer
CodeViewState(lines) ==
  [text |-> lines, cursor |-> Cur(0, 0, 0),
   scroll_offset |-> [x |-> 0, y |-> 0], scroll_offset_y |-> 0,
   max_line_length |-> MaxLineLength(lines), highlights |-> <<>>]

\* CodeViewTabs_add that makes the number of views the active index
CodeViewTabs_add_PastEnd(views, act, s, file) ==
  IF ~file.ok THEN [code_views |-> views, active |-> act]
  ELSE LET rect == [tabs_container(s) EXCEPT
                      !.width = TAB_PADDING + file.name_width + TAB_PADDING]
           view == CodeViewState(CodeView_new(file.content, TRUE))
           pushed == Append(views, [rect |-> rect, code_view |-> view])
       IN [code_views |-> pushed, active |-> Some(Len(pushed))]

\* CodeViewTabs::add(filepath): the views and the active index afterwards;
\* a path that does not exist, is no file or cannot be read changes nothing
CodeViewTabs_add(views, act, s, file) ==
  IF ~file.ok THEN [code_views |-> views, active |-> act]
  ELSE LET rect == [tabs_container(s) EXCEPT
                      !.width = TAB_PADDING + file.name_width + TAB_PADDING]
           view == CodeViewState(CodeView_new(file.content, TRUE))
           pushed == Append(views, [rect |-> rect, code_view |-> view])
       IN [code_views |-> pushed, active |-> Some(Len(pushed) - 1)]

\* the loop of CodeViewTabs::click: the first tab whose Dimensions contain
\* the position, the active index as it was when there is none
clicked_tab(views, act, pos) ==
  LET hit == {i \in 1..Len(views) :
                Dimensions_contains(views[i].rect, pos).some}
  IN IF hit = {} THEN act
     ELSE Some((CHOOSE i \in hit : \A j \in hit : i <= j) - 1)

\* TextInput::input_special of the view v: [ok, view]
View_input_special(v, key) ==
  LET r == input_special(key, v.text, v.cursor, v.scroll_offset.x)
  IN IF r.ok
       THEN [ok |-> TRUE,
             view |-> [v EXCEPT !.text = r.text, !.cursor = r.cursor,
                                !.highlights = generate_highlighting(r.text)]]
       ELSE [ok |-> FALSE, view |-> v]

\* TextInput::input_char of the view v: [ok, view]
View_input_char(v, ch) ==
  LET r == input_char(ch, v.text, v.cursor, v.scroll_offset.x)
  IN IF r.ok
       THEN [ok |-> TRUE,
             view |-> [v EXCEPT !.text = r.text, !.cursor = r.cursor,
                                !.max_line_length = MaxLineLength(r.text),
                                !.highlights = generate_highlighting(r.text)]]
       ELSE [ok |-> FALSE, view |-> v]

\* CodeView::scroll of the view v: [ok, view]
View_scroll(v, dx, dy, width, overflow_checks) ==
  LET r == CodeView_scroll(dx, dy, v.scroll_offset, v.scroll_offset_y, width,
                           v.max_line_length, Len(v.text), overflow_checks)
  IN IF r.ok
       THEN [ok |-> TRUE,
             view |-> [v EXCEPT !.scroll_offset = [x |-> r.x, y |-> r.y],
                                !.scroll_offset_y = r.gutter_y]]
       ELSE [ok |-> FALSE, view |-> v]

\* CodeView::click of the view v: [ok, view]
View_click(v, position) ==
  LET r == click(position.x, position.y, v.text, v.cursor, v.scroll_offset)
  IN IF r.ok THEN [ok |-> TRUE, view |-> [v EXCEPT !.cursor = r.cursor]]
     ELSE [ok |-> FALSE, view |-> v]

----------------------------------------------------------------------------
(* The file tree by itself: scroll, click and redraw on the trees of up to *)
(* MaxTreeEntries entries                                                   *)

InitTree ==
  /\ text = <<<<>>>>
  /\ cursor = Cur(0, 0, 0)
  /\ scroll_offset = [x |-> 0, y |-> 0]
  /\ max_line_length = 0
  /\ status = "ok"
  /\ ev = Event("init", "")
  /\ size = InitialSize
  /\ scroll_offset_y = 0
  /\ highlights = <<>>
  /\ highlight_config =
       Some(HighlightConfiguration_new("rust", "HIGHLIGHT_QUERY"))
  /\ tree \in {TreeEntry_new(entries) :
                 entries \in UNION {gen(n, 1, MaxTreeDepth) :
                                      n \in 0..(MaxTreeEntries - 1)}}
  /\ counter = 0
  /\ tree_scroll_offset = 0
  /\ mouse_pos = [x |-> 0, y |-> 0]
  /\ code_views = <<>>
  /\ active = None

\* a scroll event over the file tree, and Renderer::resize: FsTree::scroll
FsTreeScroll(dy) ==
  /\ tree_scroll_offset' = FsTree_scroll(dy, tree_scroll_offset, counter)
  /\ tree_scroll_offset' >= -MaxScroll
  /\ ev' = Event("tree_scroll", dy)
  /\ UNCHANGED <<codeVars, tree, counter, mouse_pos, code_views, active>>

\* a click in the file tree: FsTree::click
FsTreeClick(y) ==
  /\ LET r == FsTree_click(y, tree, tree_scroll_offset)
     IN /\ tree' = r.entry
        /\ counter' = r.counter
  /\ ev' = Event("tree_click", y)
  /\ UNCHANGED <<codeVars, tree_scroll_offset, mouse_pos, code_views, active>>

\* RedrawRequested: FsTree::redraw
FsTreeRedraw ==
  /\ counter' = FsTree_redraw(tree)
  /\ ev' = Event("tree_redraw", "")
  /\ UNCHANGED <<codeVars, tree, tree_scroll_offset, mouse_pos, code_views,
                 active>>

\* the vertical parts of the scroll events are 0 (as in Renderer::resize),
\* -3 and 2; the clicks fall in each line of the area
NextTree ==
  \/ \E dy \in {0, -3, 2} : FsTreeScroll(dy)
  \/ \E r \in 0..MaxTreeEntries : FsTreeClick(r * FontHeight + 1)
  \/ FsTreeRedraw

SpecTree == InitTree /\ [][NextTree]_vars

----------------------------------------------------------------------------
(* The tabs by themselves: add, click, key, character, scroll and redraw    *)
(* on up to MaxTabs views                                                   *)

\* CodeViewTabs::new
InitTabs ==
  /\ text = <<<<>>>>
  /\ cursor = Cur(0, 0, 0)
  /\ scroll_offset = [x |-> 0, y |-> 0]
  /\ max_line_length = 0
  /\ status = "ok"
  /\ ev = Event("init", "")
  /\ size = [width |-> 100, height |-> 56]
  /\ scroll_offset_y = 0
  /\ highlights = <<>>
  /\ highlight_config =
       Some(HighlightConfiguration_new("rust", "HIGHLIGHT_QUERY"))
  /\ tree = TreeEntry_new(<<FileEntry(1)>>)
  /\ counter = 0
  /\ tree_scroll_offset = 0
  /\ mouse_pos = [x |-> 0, y |-> 0]
  /\ code_views = <<>>
  /\ active = None

\* the result r = [ok, view] of a handler of the active view is stored
Forwarded(r, e) ==
  /\ ev' = e
  /\ UNCHANGED <<text, cursor, scroll_offset, max_line_length, size,
                 scroll_offset_y, highlights, highlight_config, tree, counter,
                 tree_scroll_offset, mouse_pos, active>>
  /\ IF r.ok
       THEN /\ code_views' = [code_views EXCEPT ![active.x + 1].code_view =
                                                  r.view]
            /\ UNCHANGED status
       ELSE /\ status' = "panic"
            /\ UNCHANGED code_views

\* no view is active: the handler returns
NotForwarded(e) ==
  /\ ev' = e
  /\ UNCHANGED <<codeVars, elementVars>>

\* CodeViewTabs::add
Add(file) ==
  /\ status = "ok"
  /\ Len(code_views) < MaxTabs
  /\ LET r == CodeViewTabs_add(code_views, active, size, file)
     IN /\ code_views' = r.code_views
        /\ active' = r.active
  /\ ev' = Event("add", file.ok)
  /\ UNCHANGED <<codeVars, tree, counter, tree_scroll_offset, mouse_pos>>

\* CodeViewTabs::click
TabsClick(position) ==
  /\ status = "ok"
  /\ LET pos == Dimensions_contains(tabs_container(size), position)
         e == Event("tabs_click", position)
     IN IF pos.some
          THEN /\ active' = clicked_tab(code_views, active, pos.x)
               /\ ev' = e
               /\ UNCHANGED <<codeVars, tree, counter, tree_scroll_offset,
                              mouse_pos, code_views>>
        ELSE IF active.some
          THEN Forwarded(View_click(code_views[active.x + 1].code_view,
                                    position), e)
          ELSE NotForwarded(e)

\* TextInput::input_special for CodeViewTabs
TabsKey(key) ==
  /\ status = "ok"
  /\ IF active.some
       THEN Forwarded(View_input_special(code_views[active.x + 1].code_view,
                                         key), Event("tabs_key", key))
       ELSE NotForwarded(Event("tabs_key", key))

\* TextInput::input_char for CodeViewTabs
TabsChar(ch) ==
  /\ status = "ok"
  /\ IF active.some
       THEN /\ Forwarded(View_input_char(code_views[active.x + 1].code_view,
                                         ch), Event("tabs_char", ch))
       ELSE NotForwarded(Event("tabs_char", ch))

\* CodeViewTabs::scroll
TabsScroll(dx, dy, overflow_checks) ==
  /\ status = "ok"
  /\ IF active.some
       THEN LET r == View_scroll(code_views[active.x + 1].code_view, dx, dy,
                                 size.width, overflow_checks)
            IN /\ r.view.scroll_offset.y >= -MaxScroll
               /\ r.view.scroll_offset_y >= -MaxScroll
               /\ Forwarded(r, Event("tabs_scroll", <<dx, dy>>))
       ELSE NotForwarded(Event("tabs_scroll", <<dx, dy>>))

\* CodeViewTabs::redraw: the names of the tabs and the active view are
\* drawn, no field changes
TabsRedraw ==
  /\ status = "ok"
  /\ NotForwarded(Event("tabs_redraw", active))

\* The paths given to add: one that cannot be opened, a file with a short
\* name, a file with a longer name; each file holds one letter.  The
\* positions of the clicks: in every tab, in the longer tab only, in the
\* container beside the tabs, left of the container, below it.
NextTabs ==
  \/ \E file \in {[ok |-> FALSE, name_width |-> 0, content |-> <<>>],
                   [ok |-> TRUE, name_width |-> 2, content |-> <<"a">>],
                   [ok |-> TRUE, name_width |-> 4, content |-> <<"e">>]} :
       Add(file)
  \/ \E position \in {Position(45, 10), Position(73, 10), Position(25, 10),
                       Position(0, 1), Position(60, 55)} :
       TabsClick(position)
  \/ TabsKey("Right")
  \/ TabsChar(Backspace)
  \/ \E oc \in BOOLEAN : TabsScroll(0, -3, oc)
  \/ TabsRedraw

SpecTabs == InitTabs /\ [][NextTabs]_vars

----------------------------------------------------------------------------
(* The window: the mouse events of main, dispatched by Renderer to the     *)
(* file tree and to the active code view                                    *)

\* Renderer::get_elements with get_dimensions of each element: the file
\* tree, then the active code view
get_elements(s) ==
  <<[element |-> "fs_tree",
     dimensions |-> [x |-> 0, y |-> 0, width |-> tree_width(s),
                     height |-> s.height]],
    [element |-> "code_view", dimensions |-> CodeView_dimensions(s)]>>

\* first_hit that takes the last element that contains the position
first_hit_Last(s, position) ==
  LET elements == get_elements(s)
      hit == {i \in 1..Len(elements) :
                Dimensions_contains(elements[i].dimensions, position).some}
  IN IF hit = {} THEN 0 ELSE CHOOSE i \in hit : \A j \in hit : i >= j

\* the loops of Renderer::scroll and Renderer::click: the number of the
\* element at which the loop breaks, 0 when it runs to its end
first_hit(s, position) ==
  LET elements == get_elements(s)
      hit == {i \in 1..Len(elements) :
                Dimensions_contains(elements[i].dimensions, position).some}
  IN IF hit = {} THEN 0 ELSE CHOOSE i \in hit : \A j \in hit : i <= j

\* Renderer::new on a window of 10 by 56 pixels (2 pixels wide for the file
\* tree, 8 for the code view), a file of four lines and a directory that
\* holds a directory with a file, and a file
InitRenderer ==
  /\ text = <<<<"e", "a", "e", "a">>, <<"a">>, <<>>, <<"a", "e">>>>
  /\ cursor = Cur(0, 0, 0)
  /\ scroll_offset = [x |-> 0, y |-> 0]
  /\ max_line_length = MaxLineLength(text)
  /\ status = "ok"
  /\ ev = Event("init", "")
  /\ size = [width |-> 10, height |-> 56]
  /\ scroll_offset_y = 0
  /\ highlights = <<>>
  /\ highlight_config =
       Some(HighlightConfiguration_new("rust", "HIGHLIGHT_QUERY"))
  /\ tree = TreeEntry_new(<<DirEntry(1, <<FileEntry(2)>>), FileEntry(1)>>)
  /\ counter = 0
  /\ tree_scroll_offset = 0
  /\ mouse_pos = Position(0, 0)
  /\ code_views = <<>>
  /\ active = None

\* WindowEvent::CursorMoved
CursorMoved(position) ==
  /\ status = "ok"
  /\ mouse_pos' = position
  /\ ev' = Event("moved", position)
  /\ UNCHANGED <<codeVars, tree, counter, tree_scroll_offset, code_views,
                 active>>

\* WindowEvent::MouseWheel: Renderer::scroll(offset, mouse_pos)
RendererScroll(dx, dy, overflow_checks) ==
  /\ status = "ok"
  /\ ev' = Event("wheel", <<dx, dy>>)
  /\ UNCHANGED <<text, cursor, max_line_length, size, highlights,
                 highlight_config, tree, counter, mouse_pos, code_views,
                 active>>
  /\ LET element == first_hit(size, mouse_pos)
     IN CASE element = 1 ->
               /\ tree_scroll_offset' =
                    FsTree_scroll(dy, tree_scroll_offset, counter)
               /\ tree_scroll_offset' >= -MaxScroll
               /\ UNCHANGED <<scroll_offset, scroll_offset_y, status>>
          [] element = 2 ->
               LET r == CodeView_scroll(dx, dy, scroll_offset,
                                        scroll_offset_y, size.width,
                                        max_line_length, Len(text),
                                        overflow_checks)
               IN /\ UNCHANGED tree_scroll_offset
                  /\ IF r.ok
                       THEN /\ r.y >= -MaxScroll
                            /\ r.gutter_y >= -MaxScroll
                            /\ scroll_offset' = [x |-> r.x, y |-> r.y]
                            /\ scroll_offset_y' = r.gutter_y
                            /\ UNCHANGED status
                       ELSE /\ status' = "panic"
                            /\ UNCHANGED <<scroll_offset, scroll_offset_y>>
          [] OTHER ->
               UNCHANGED <<tree_scroll_offset, scroll_offset,
                           scroll_offset_y, status>>

\* WindowEvent::MouseInput: Renderer::click(mouse_pos, state)
RendererClick(state) ==
  /\ status = "ok"
  /\ ev' = Event("button", state)
  /\ UNCHANGED <<text, scroll_offset, max_line_length, size,
                 scroll_offset_y, highlights, highlight_config,
                 tree_scroll_offset, mouse_pos, code_views, active>>
  /\ LET element == IF state = "Pressed" THEN first_hit(size, mouse_pos)
                    ELSE 0
         pos == IF element = 0 THEN NoPosition
                ELSE Dimensions_contains(
                       get_elements(size)[element].dimensions, mouse_pos)
     IN CASE element = 1 ->
               LET r == FsTree_click(pos.x.y, tree, tree_scroll_offset)
               IN /\ tree' = r.entry
                  /\ counter' = r.counter
                  /\ UNCHANGED <<cursor, status>>
          [] element = 2 ->
               LET r == click(pos.x.x, pos.x.y, text, cursor, scroll_offset)
               IN /\ UNCHANGED <<tree, counter>>
                  /\ IF r.ok
                       THEN cursor' = r.cursor /\ UNCHANGED status
                       ELSE status' = "panic" /\ UNCHANGED cursor
          [] OTHER -> UNCHANGED <<tree, counter, cursor, status>>

\* Event::RedrawRequested: Renderer::redraw
RedrawRequested ==
  /\ status = "ok"
  /\ counter' = FsTree_redraw(tree)
  /\ ev' = Event("redraw", "")
  /\ UNCHANGED <<codeVars, tree, tree_scroll_offset, mouse_pos, code_views,
                 active>>

\* the positions of the mouse: in the tree, on the edge that the tree and
\* the code view share, in the tab bar, in the code view, in the bottom
\* right corner of the code view, outside the window
NextRenderer ==
  \/ \E position \in {Position(0, 0), Position(1, 3), Position(2, 53),
                       Position(5, 20), Position(6, 51), Position(10, 56),
                       Position(11, 53)} :
       CursorMoved(position)
  \/ \E d \in {<<0, -3>>, <<3, -2>>}, oc \in BOOLEAN :
       RendererScroll(d[1], d[2], oc)
  \/ \E state \in {"Pressed", "Released"} : RendererClick(state)
  \/ RedrawRequested

SpecRenderer == InitRenderer /\ [][NextRenderer]_vars

----------------------------------------------------------------------------
(* Properties *)

\* the cursor addresses a position of the buffer: an existing line and a
\* column between 0 and the number of code points of that line
ValidCursor(lines, cur) ==
  /\ cur.row < Len(lines)
  /\ cur.column <= CharLen(lines[cur.row + 1])

\* the line the cursor is on
CurrentLine == text[cursor.row + 1]

\* the event handled by the step is e, and it was handled from a running
\* editor whose cursor addresses a position of the buffer
Handles(e) == status = "ok" /\ ValidCursor(text, cursor) /\ ev' = e

\* the step leaves every line but the given (0-based) one as it was
OtherLinesUnchanged(row) ==
  /\ Len(text') = Len(text)
  /\ \A i \in 1..Len(text) : i # row + 1 => text'[i] = text[i]

\* C1: on a buffer that is not empty, after any sequence of key, character
\* and click events the cursor row indexes an existing line and
\* 0 <= column <= length of that line.
C1_CursorValid ==
  TotalChars(text, Len(text)) > 0 => ValidCursor(text, cursor)

\* C2: no input event aborts; after every event the editor can handle the
\* next one.
C2_NoEventFails == status = "ok"

\* C3: at every valid cursor position, end of line and empty line included,
\* inserting c makes the line prefix + c + suffix, leaves the other lines
\* unchanged and moves the cursor to (row, column + 1).
C3_InsertAtEveryPosition ==
  [][\A ch \in Alphabet :
       Handles(Event("char", ch)) =>
         /\ status' = "ok"
         /\ text'[cursor.row + 1] =
              SubSeq(CurrentLine, 1, cursor.column) \o <<ch>>
                \o SubSeq(CurrentLine, cursor.column + 1, Len(CurrentLine))
         /\ OtherLinesUnchanged(cursor.row)
         /\ cursor'.row = cursor.row
         /\ cursor'.column = cursor.column + 1]_vars

\* C4: at every valid cursor position, end of line included, Enter keeps the
\* prefix on line row, puts the suffix on a new line row + 1, adds exactly one
\* line and moves the cursor to (row + 1, 0).
C4_EnterSplitsLine ==
  [][Handles(Event("char", Enter)) =>
       /\ status' = "ok"
       /\ text' = VecInsert(
                    [text EXCEPT ![cursor.row + 1] =
                       SubSeq(CurrentLine, 1, cursor.column)],
                    cursor.row + 1,
                    SubSeq(CurrentLine, cursor.column + 1, Len(CurrentLine)))
       /\ cursor'.row = cursor.row + 1
       /\ cursor'.column = 0]_vars

\* C5: Backspace with column > 0 removes exactly the character before the
\* cursor, keeps the other characters and the line count, and moves the
\* cursor to (row, column - 1).
C5_BackspaceInLine ==
  [][(Handles(Event("char", Backspace)) /\ cursor.column > 0) =>
       /\ status' = "ok"
       /\ text'[cursor.row + 1] =
            SubSeq(CurrentLine, 1, cursor.column - 1)
              \o SubSeq(CurrentLine, cursor.column + 1, Len(CurrentLine))
       /\ OtherLinesUnchanged(cursor.row)
       /\ cursor'.row = cursor.row
       /\ cursor'.column = cursor.column - 1]_vars

\* C6: Backspace at column 0 of a row > 0 appends the line to the previous
\* one, removes it, leaves the other lines unchanged and puts the cursor at
\* (row - 1, length of the old previous line), empty lines included.
C6_BackspaceMergesLines ==
  [][(Handles(Event("char", Backspace)) /\ cursor.column = 0 /\ cursor.row > 0) =>
       /\ status' = "ok"
       /\ text' = VecRemove(
                    [text EXCEPT ![cursor.row] = text[cursor.row] \o CurrentLine],
                    cursor.row)
       /\ cursor'.row = cursor.row - 1
       /\ cursor'.column = CharLen(text[cursor.row])]_vars

\* C7: from every valid cursor position, inserting a character and then
\* pressing Backspace gives back the buffer content and the cursor
\* (row, column).
C7_InsertBackspaceRoundTrip ==
  (status = "ok" /\ ValidCursor(text, cursor)) =>
    \A ch \in Alphabet :
      LET s1 == input_char(ch, text, cursor, scroll_offset.x)
          s2 == input_char(Backspace, s1.text, s1.cursor, scroll_offset.x)
      IN /\ s1.ok
         /\ s2.ok
         /\ s2.text = text
         /\ s2.cursor.row = cursor.row
         /\ s2.cursor.column = cursor.column

\* C8: Right moves to (row, column + 1) when the column is less than the
\* length of the row, and to (row + 1, 0) from the end of a row that is not
\* the last one.
C8_RightWithinAndAcrossRows ==
  [][Handles(Event("key", "Right")) =>
       /\ cursor.column < CharLen(CurrentLine) =>
            /\ status' = "ok"
            /\ cursor'.row = cursor.row
            /\ cursor'.column = cursor.column + 1
       /\ (cursor.column = CharLen(CurrentLine) /\ cursor.row + 1 < Len(text)) =>
            /\ status' = "ok"
            /\ cursor'.row = cursor.row + 1
            /\ cursor'.column = 0]_vars

\* C8 witness: Right was pressed at the end of "aa" in the buffer "aa\na"
\* and the cursor is at the start of the next row.
C8_Witness ==
  /\ ev = Event("key", "Right")
  /\ status = "ok"
  /\ text = <<<<"a", "a">>, <<"a">>>>
  /\ cursor.row = 1
  /\ cursor.column = 0

\* C9: Right on the last row at its end-of-line column leaves the cursor
\* (row, column) unchanged.
C9_RightAtEndOfBufferStays ==
  [][(Handles(Event("key", "Right"))
        /\ cursor.row + 1 = Len(text)
        /\ cursor.column = CharLen(CurrentLine)) =>
       /\ status' = "ok"
       /\ cursor'.row = cursor.row
       /\ cursor'.column = cursor.column]_vars

\* C10: Down on the last row keeps the row and sets the column to the length
\* of that row.
C10_DownOnLastRowClamps ==
  [][(Handles(Event("key", "Down")) /\ cursor.row + 1 = Len(text)) =>
       /\ status' = "ok"
       /\ cursor'.row = cursor.row
       /\ cursor'.column = CharLen(CurrentLine)]_vars

\* C11: Up from a row that is not the first and Down from a row that is not
\* the last change the row by exactly one; the column is kept if it is at
\* most the length of the new row and becomes that length otherwise.
C11_UpDownBetweenRows ==
  [][\A key \in {"Up", "Down"} :
       (/\ Handles(Event("key", key))
        /\ key = "Up" => cursor.row > 0
        /\ key = "Down" => cursor.row + 1 < Len(text)) =>
         LET r == IF key = "Up" THEN cursor.row - 1 ELSE cursor.row + 1
             l == CharLen(text[r + 1])
         IN /\ status' = "ok"
            /\ cursor'.row = r
            /\ cursor'.column = IF cursor.column <= l THEN cursor.column ELSE l]_vars

\* C12: Up on row 0 keeps the row at 0 and sets the column and x_offset to
\* 0, whatever the column was.
C12_UpOnFirstRow ==
  [][(status = "ok" /\ ev' = Event("key", "Up") /\ cursor.row = 0) =>
       /\ status' = "ok"
       /\ cursor' = Cur(0, 0, 0)
       /\ text' = text]_vars

\* C12 witness: Up was pressed on the one-line buffer "ae" and the cursor
\* is at (0, 0) with x_offset 0.
C12_Witness ==
  /\ ev = Event("key", "Up")
  /\ status = "ok"
  /\ text = <<<<"a", "e">>>>
  /\ cursor = Cur(0, 0, 0)

\* C13: Left moves to (row, column - 1) when column > 0; from column 0 of a
\* row > 0 it moves to (row - 1, L) with L the length in characters of row
\* - 1, and x_offset 0 when that row is empty; at (0, 0) row and column stay.
C13_Left ==
  [][Handles(Event("key", "Left")) =>
       /\ status' = "ok"
       /\ cursor.column > 0 =>
            /\ cursor'.row = cursor.row
            /\ cursor'.column = cursor.column - 1
       /\ (cursor.column = 0 /\ cursor.row > 0) =>
            /\ cursor'.row = cursor.row - 1
            /\ cursor'.column = CharLen(text[cursor.row])
            /\ text[cursor.row] = <<>> => cursor'.x_offset = 0
       /\ (cursor.column = 0 /\ cursor.row = 0) =>
            /\ cursor'.row = 0
            /\ cursor'.column = 0]_vars

\* C14: after every event that sets the cursor, the stored x_offset is the
\* value measured for the current (row, column) on the current buffer; after
\* a click to the right of the last glyph it is the end-of-line position.
C14_XOffsetIsMeasured ==
  (status = "ok" /\ ValidCursor(text, cursor)) =>
    cursor.x_offset =
      unwrap_or(cursor_x_position(cursor.row, cursor.column, text,
                                  scroll_offset.x), 0)

\* the bounds of the claims on the scroll offsets, for a window of width w
YInBounds(y) ==
  -(Max(0, Len(text) - 3) * FontHeight) <= y /\ y <= 0
XInBounds(x, w) ==
  Min(0, w - MaxLineLength(text)) <= x /\ x <= 0

C16_VerticalClamp == YInBounds(scroll_offset.y)

\* C17: after every scroll event the horizontal offset x satisfies
\* min(0, availableWidth - maxLineWidth) <= x <= 0.
C17_HorizontalClamp ==
  (ev.kind = "scroll" /\ status = "ok") =>
    XInBounds(scroll_offset.x, size.width)

\* C18: a scroll event with |delta.x| > |delta.y| changes only x and leaves
\* y unchanged; any other scroll event, ties and the zero delta included,
\* changes only y and leaves x unchanged.
C18_DominantAxis ==
  [][\A d \in ScrollDeltas :
       (status = "ok" /\ ev' = Event("scroll", d) /\ status' = "ok") =>
         IF Abs(d[1]) > Abs(d[2])
           THEN scroll_offset'.y = scroll_offset.y
           ELSE scroll_offset'.x = scroll_offset.x]_vars

\* C18 witness: a scroll by (3, -2), mostly horizontal, on a view already
\* scrolled down has left x at -3 and y as it was.
C18_Witness ==
  /\ ev = Event("scroll", <<3, -2>>)
  /\ status = "ok"
  /\ scroll_offset = [x |-> -3, y |-> -3]

\* C19: after a resize event both scroll offsets satisfy the clamp bounds
\* for the new viewport size: min(0, newWidth - maxLineWidth) <= x <= 0 and
\* y within its line-count bound; offsets already inside the new bounds are
\* not reset.
C19_ResizeReclamps ==
  [][\A s \in ScreenSizes :
       (status = "ok" /\ ev' = Event("resize", s)) =>
         /\ status' = "ok"
         /\ XInBounds(scroll_offset'.x, s.width)
         /\ YInBounds(scroll_offset'.y)
         /\ XInBounds(scroll_offset.x, s.width) =>
              scroll_offset'.x = scroll_offset.x
         /\ YInBounds(scroll_offset.y) =>
              scroll_offset'.y = scroll_offset.y]_vars

\* C20: a resize event with size s followed by a second resize event with
\* the same size s leaves the scroll offsets (x, y) equal to their values
\* after the first resize.
C20_ResizeIdempotent ==
  [][\A s \in ScreenSizes :
       (/\ status = "ok"
        /\ ev = Event("resize", s)
        /\ ev' = Event("resize", s)
        /\ status' = "ok") =>
         scroll_offset' = scroll_offset]_vars

\* C20 witness: the window was resized to width 8 with the view scrolled on
\* both axes, a state in which the same resize can come again.
C20_Witness ==
  /\ ev = Event("resize", [width |-> 8, height |-> 4])
  /\ status = "ok"
  /\ scroll_offset.x < 0
  /\ scroll_offset.y < 0

\* C21: after every scroll and every resize, the range of lines drawn has
\* upperBound <= lowerBound <= lineCount, for the code area and for the
\* gutter.
C21_VisibleRange ==
  (status = "ok" /\ ev.kind \in {"scroll", "resize"}) =>
    \A h \in AreaHeights : \A y \in {scroll_offset.y, scroll_offset_y} :
      /\ upper_bound(y) <= lower_bound(y, h, Len(text))
      /\ lower_bound(y, h, Len(text)) <= Len(text)

\* C25: after every insert, Backspace and Enter that returns, the stored
\* highlights are the spans derived from the buffer after the edit and the
\* stored max line width is the measured width of its widest line.
C25_DerivedDataFresh ==
  [][(status = "ok" /\ ev'.kind = "char" /\ status' = "ok") =>
       /\ highlights' = generate_highlighting(text')
       /\ max_line_length' = MaxLineLength(text')]_vars

\* an insert has changed the spans and the widest line
C25_Witness ==
  /\ status = "ok"
  /\ ev.kind = "char"
  /\ ev.arg \in Alphabet
  /\ Len(text) = 2
  /\ highlights = generate_highlighting(text)
  /\ highlights # <<>>
  /\ max_line_length = MaxLineLength(text)
  /\ max_line_length > 0

\* the number of grapheme clusters of a line
ClusterCount(line) == Cardinality(ClusterStarts(line))

\* the number of code points before cluster number k (0-based) of a line;
\* the length of the line for k = ClusterCount(line)
ClusterBoundary(line, k) ==
  IF k >= ClusterCount(line) THEN Len(line)
  ELSE CHOOSE i \in ClusterStarts(line) :
         Cardinality({j \in ClusterStarts(line) : j < i}) = k

\* C29: with the column counting grapheme clusters, Backspace removes the
\* whole cluster before the cursor, insert and Enter split the line at the
\* cluster boundary of the column, and the column left by every key and
\* every edit is at most the number of clusters of its row.
C29_GraphemeClusters ==
  [][(/\ status = "ok"
      /\ status' = "ok"
      /\ ev'.kind \in {"char", "key"}
      /\ cursor.row < Len(text)
      /\ cursor.column <= ClusterCount(CurrentLine)) =>
       LET line == CurrentLine
           row == cursor.row + 1
           at == ClusterBoundary(line, cursor.column)
           head == SubSeq(line, 1, at)
           tail == SubSeq(line, at + 1, Len(line))
       IN /\ (ev' = Event("char", Backspace) /\ cursor.column > 0) =>
               text'[row] =
                 SubSeq(line, 1, ClusterBoundary(line, cursor.column - 1))
                   \o tail
          /\ (ev'.kind = "char" /\ ev'.arg \in Alphabet) =>
               text'[row] = head \o <<ev'.arg>> \o tail
          /\ ev' = Event("char", Enter) =>
               text'[row] = head /\ text'[row + 1] = tail
          /\ cursor'.row < Len(text') =>
               cursor'.column <= ClusterCount(text'[cursor'.row + 1])]_vars

\* C23: for every well-nested event stream whose Source events tile the
\* buffer, the spans are sorted, do not overlap, are contiguous and cover
\* the buffer exactly, so the text of every Source event is in exactly one
\* span.
C23_HighlightCoverage ==
  ev.kind = "generated" =>
    LET n == Len(RopeChars(text, Len(text)))
        h == highlights
    IN /\ Len(h) > 0
       /\ h[1].start = 0
       /\ h[Len(h)].end = n
       /\ \A i \in 1..Len(h) : h[i].start < h[i].end
       /\ \A i \in 1..(Len(h) - 1) : h[i].end = h[i + 1].start

RECURSIVE OpenHighlights(_, _)
\* the highlights open after the first k events of a stream, innermost last
OpenHighlights(events, k) ==
  IF k = 0 THEN <<>>
  ELSE LET open == OpenHighlights(events, k - 1)
       IN CASE events[k].type = "HighlightStart" ->
                 Append(open, try_from(events[k].s))
            [] events[k].type = "HighlightEnd" ->
                 SubSeq(open, 1, Len(open) - 1)
            [] OTHER -> open

\* C24: every Source event gives a span with the innermost highlight open
\* at that event, the enclosing one again after a nested highlight has
\* ended, and none when no highlight is open.
C24_InnermostWins ==
  ev.kind = "generated" =>
    LET chars == RopeChars(text, Len(text))
        events == ev.arg
    IN \A k \in 1..Len(events) :
         events[k].type = "Source" =>
           LET open == OpenHighlights(events, k)
               name == IF open = <<>> THEN None ELSE open[Len(open)]
           IN \E i \in 1..Len(highlights) :
                highlights[i] = Span(byte_to_char(chars, events[k].start),
                                     byte_to_char(chars, events[k].end),
                                     name)

\* the number of line feeds of a file content
Newlines(t) == Cardinality({i \in 1..Len(t) : t[i] = LF})

\* C28: for every file content, the empty one and those that end with a
\* line feed included, the loaded buffer has one line more than the content
\* has line feeds, and its lines joined with line feeds are the content.
C28_LineCountAtLoad ==
  ev.kind = "loaded" =>
    /\ Len(text) = Newlines(ev.arg) + 1
    /\ RopeChars(text, Len(text)) = ev.arg

\* the extensions with a configuration: cpp, cxx, cc, java, js, cjs, mjs,
\* jsx, ml, mli, py, rs, ts, tsx
KnownExtensions ==
  {<<"c", "p", "p">>, <<"c", "x", "x">>, <<"c", "c">>,
   <<"j", "a", "v", "a">>, <<"j", "s">>, <<"c", "j", "s">>,
   <<"m", "j", "s">>, <<"j", "s", "x">>, <<"m", "l">>,
   <<"m", "l", "i">>, <<"p", "y">>, <<"r", "s">>,
   <<"t", "s">>, <<"t", "s", "x">>}

\* C30: config_from_extension gives no configuration when the extension is
\* absent or is not one of the known ones, gives a configuration with an
\* empty span list for each known one, and does not fail.
C30_ConfigFromExtension ==
  ev.kind = "configured" =>
    /\ status = "ok"
    /\ IF ev.arg.some /\ ev.arg.x \in KnownExtensions
         THEN highlight_config.some /\ highlights = <<>>
         ELSE ~highlight_config.some

\* a known extension has got its configuration
C30_Witness ==
  /\ ev = Event("configured", Some(<<"j", "s", "x">>))
  /\ highlight_config.some
  /\ highlight_config.x.query = "JSX_HIGHLIGHT_QUERY"

\* the range of lines drawn at offset y is a range of lines of the buffer
RangeInBuffer(y) ==
  \A h \in AreaHeights :
    /\ upper_bound(y) <= lower_bound(y, h, Len(text))
    /\ lower_bound(y, h, Len(text)) <= Len(text)

\* C22: an edit (insert, Backspace, Enter) of a buffer whose scroll offsets
\* are within the clamp bounds leaves them within the clamp bounds of the
\* new line count and the new widest line, and the range of lines of a
\* following redraw has upperBound <= lowerBound <= lineCount.
C22_ReclampAfterEdit ==
  [][(/\ status = "ok"
      /\ status' = "ok"
      /\ ev'.kind = "char"
      /\ YInBounds(scroll_offset.y)
      /\ XInBounds(scroll_offset.x, size.width)) =>
       (/\ YInBounds(scroll_offset.y)
        /\ XInBounds(scroll_offset.x, size.width)
        /\ RangeInBuffer(scroll_offset.y))']_vars

C27_CursorRect ==
  (/\ status = "ok"
   /\ ValidCursor(text, cursor)
   /\ ev.kind \in {"key", "scroll"}) =>
    LET m == SumAdvance(CurrentLine, cursor.column)
        key == input_special_rect(size.height, GutterWidth, scroll_offset,
                                  cursor)
        rect == IF ev.kind = "key"
                  THEN [x |-> key.x, y |-> rect_top(size.height, key.y)]
                  ELSE Code_scroll_rect(scroll_offset, cursor)
    IN rect = [x |-> GutterWidth + m + scroll_offset.x,
               y |-> cursor.row * FontHeight + scroll_offset.y]

\* C32: on every row, the x position measured at a column is at most the
\* one measured at every later column up to the length of the row, and the
\* end-of-line column is measured as the position of the last glyph plus
\* its width.
C32_MeasurementMonotone ==
  \A row \in 0..(Len(text) - 1) :
    LET line == text[row + 1]
        n == GlyphCount(line)
        at(c) == cursor_x_position(row, c, text, scroll_offset.x)
    IN n > 0 =>
         /\ \A c2 \in 0..n : \A c1 \in 0..c2 :
              at(c1).some /\ at(c2).some /\ at(c1).x <= at(c2).x
         /\ at(n).x = at(n - 1).x + Advance(line[n])

\* a key has measured the end of a row of two glyphs or more
C32_Witness ==
  /\ status = "ok"
  /\ ev.kind = "key"
  /\ cursor.row < Len(text)
  /\ cursor.column = GlyphCount(CurrentLine)
  /\ cursor.column >= 2
  /\ cursor.x_offset = line_length(CurrentLine)

\* C33: Escape, as a key and as the received character U+001B, leaves the
\* buffer content, the line count and the cursor (row, column) unchanged.
C33_EscapeNoOp ==
  [][(Handles(Event("key", "Escape")) \/ Handles(Event("char", Esc))) =>
       /\ text' = text
       /\ cursor'.row = cursor.row
       /\ cursor'.column = cursor.column]_vars

\* C36: Up, Down, Left and Right never change the buffer content or the
\* line count, from any cursor position.
C36_MovementDoesNotEdit ==
  [][(status = "ok" /\ ev'.kind = "key"
        /\ ev'.arg \in {"Up", "Down", "Left", "Right"}) =>
       text' = text]_vars

\* a directional key has moved the cursor on a buffer with content
C36_Witness ==
  /\ status = "ok"
  /\ ev = Event("key", "Down")
  /\ cursor.row = 1
  /\ TotalChars(text, Len(text)) > 0


\* C34: after every sequence of scroll events on the code view, those with
\* a larger horizontal than vertical part included, the vertical offset of
\* the gutter equals the vertical offset of the code area.
C34_GutterAligned ==
  status = "ok" => scroll_offset_y = scroll_offset.y

\* C35: in the initial state and in every state reached by scroll, resize
\* and click events only, the spans of the highlight list are contiguous
\* and cover the buffer from its first to its last code point.
C35_DisplayedBeforeFirstKey ==
  (status = "ok" /\ ev.kind \in {"init", "scroll", "resize", "click"}) =>
    LET n == Len(RopeChars(text, Len(text)))
        h == highlights
    IN n > 0 =>
         /\ Len(h) > 0
         /\ h[1].start = 0
         /\ h[Len(h)].end = n
         /\ \A i \in 1..(Len(h) - 1) : h[i].end = h[i + 1].start

\* C39: after every sequence of scroll, click and redraw events on the
\* file tree, scroll events before the first redraw and trees with fewer
\* than 3 visible entries included, its vertical scroll offset is at most 0.
C39_TreeOffsetNotPositive == tree_scroll_offset <= 0

RECURSIVE AllEntries(_)
RECURSIVE AllEntriesOf(_, _)
\* the entries of a tree in pre-order, the hidden ones included
AllEntries(entry) == <<entry>> \o AllEntriesOf(entry.sub_entry.x, 1)
AllEntriesOf(entries, k) ==
  IF k > Len(entries) THEN <<>>
  ELSE AllEntries(entries[k]) \o AllEntriesOf(entries, k + 1)

RECURSIVE VisibleEntries(_, _)
RECURSIVE VisibleEntriesOf(_, _, _)
\* the positions in AllEntries of the entries that are not hidden under a
\* folded directory, in pre-order, for an entry at position pos
VisibleEntries(entry, pos) ==
  <<pos>> \o (IF entry.folded THEN <<>>
              ELSE VisibleEntriesOf(entry.sub_entry.x, 1, pos + 1))
VisibleEntriesOf(entries, k, pos) ==
  IF k > Len(entries) THEN <<>>
  ELSE VisibleEntries(entries[k], pos)
         \o VisibleEntriesOf(entries, k + 1,
                             pos + Len(AllEntries(entries[k])))

\* C40: a click at y, with i the floor of (y - scroll offset) / line
\* height, flips the folded flag of the i-th visible entry in pre-order if
\* and only if that entry is a directory, leaves the flag of every other
\* entry as it was, and leaves in counter the number of entries that are
\* not hidden under a folded directory.
C40_ClickTogglesOneFolder ==
  [][ev'.kind = "tree_click" =>
       LET i == (ev'.arg - tree_scroll_offset) \div FontHeight
           visible == VisibleEntries(tree, 1)
           before == AllEntries(tree)
           after == AllEntries(tree')
           flipped == IF /\ i >= 0
                         /\ i < Len(visible)
                         /\ before[visible[i + 1]].sub_entry.some
                        THEN {visible[i + 1]}
                        ELSE {}
       IN /\ Len(after) = Len(before)
          /\ \A k \in 1..Len(before) :
               /\ after[k].sub_entry.some = before[k].sub_entry.some
               /\ after[k].folded = (IF k \in flipped THEN ~before[k].folded
                                     ELSE before[k].folded)
          /\ counter' = Len(VisibleEntries(tree', 1))]_vars

\* the active index is unset when there is no view, and the index of a view
\* otherwise
ActiveValid ==
  IF Len(code_views) = 0 THEN ~active.some
  ELSE active.some /\ active.x >= 0 /\ active.x < Len(code_views)

\* C38: after every sequence of add operations and tab clicks the active
\* index is unset, only when no tab was ever added, or less than the number
\* of views; an add that succeeds makes the new view the active one; key,
\* character, scroll and redraw events change the active view only, and
\* nothing when no view is active.
C38_ActiveTabValid ==
  /\ ActiveValid
  /\ [][/\ ActiveValid'
        /\ ev' = Event("add", TRUE) =>
             /\ Len(code_views') = Len(code_views) + 1
             /\ SubSeq(code_views', 1, Len(code_views)) = code_views
             /\ active' = Some(Len(code_views') - 1)
        /\ ev'.kind \in {"tabs_key", "tabs_char", "tabs_scroll",
                         "tabs_redraw"} =>
             /\ active' = active
             /\ Len(code_views') = Len(code_views)
             /\ \A i \in 1..Len(code_views) :
                  (~active.some \/ i # active.x + 1) =>
                    code_views'[i] = code_views[i]
             /\ ~active.some => status' = status]_vars

\* a key has moved the cursor of the first of two views, made active by a
\* click on its tab, and the second view is as it was built
C38_Witness ==
  /\ status = "ok"
  /\ ev = Event("tabs_key", "Right")
  /\ Len(code_views) = 2
  /\ active = Some(0)
  /\ code_views[1].code_view.cursor.column = 1
  /\ code_views[2].code_view.cursor.column = 0

\* the mouse is in the rectangle of the file tree, edges included
InFsTree ==
  /\ 0 <= mouse_pos.x /\ mouse_pos.x <= tree_width(size)
  /\ 0 <= mouse_pos.y /\ mouse_pos.y <= size.height

\* the mouse is in the rectangle of the active code view, edges included
InCodeView ==
  /\ tree_width(size) <= mouse_pos.x /\ mouse_pos.x <= size.width
  /\ TAB_HEIGHT <= mouse_pos.y /\ mouse_pos.y <= size.height

\* the state of the file tree and the state of the code view
FsTreeState == <<tree, counter, tree_scroll_offset>>
CodeViewFields ==
  <<text, cursor, scroll_offset, scroll_offset_y, max_line_length,
    highlights, status>>

\* C37: a scroll or click event is handled by the file tree when its
\* rectangle contains the mouse position, else by the active code view
\* when its rectangle contains it, edges included, and by no other
\* element; the click is given the position relative to the origin of the
\* element; a button event that is not Pressed, and an event outside every
\* element, change no state.
C37_DispatchToFirstElement ==
  [][ev'.kind \in {"wheel", "button"} =>
       /\ mouse_pos' = mouse_pos
       /\ (ev' = Event("button", "Released") \/ (~InFsTree /\ ~InCodeView)) =>
            FsTreeState' = FsTreeState /\ CodeViewFields' = CodeViewFields
       /\ InFsTree => CodeViewFields' = CodeViewFields
       /\ ~InFsTree => FsTreeState' = FsTreeState
       /\ (ev'.kind = "wheel" /\ InFsTree) =>
            /\ tree_scroll_offset' =
                 FsTree_scroll(ev'.arg[2], tree_scroll_offset, counter)
            /\ tree' = tree /\ counter' = counter
       /\ (ev' = Event("button", "Pressed") /\ InFsTree) =>
            /\ tree' = FsTree_click(mouse_pos.y, tree,
                                    tree_scroll_offset).entry
            /\ tree_scroll_offset' = tree_scroll_offset
       /\ (ev'.kind = "wheel" /\ ~InFsTree /\ InCodeView) =>
            \/ status' = "panic"
            \/ \E oc \in BOOLEAN :
                 LET r == CodeView_scroll(ev'.arg[1], ev'.arg[2],
                                          scroll_offset, scroll_offset_y,
                                          size.width, max_line_length,
                                          Len(text), oc)
                 IN /\ r.ok
                    /\ scroll_offset' = [x |-> r.x, y |-> r.y]
                    /\ scroll_offset_y' = r.gutter_y
       /\ (ev' = Event("button", "Pressed") /\ ~InFsTree /\ InCodeView) =>
            LET r == click(mouse_pos.x - tree_width(size),
                           mouse_pos.y - TAB_HEIGHT, text, cursor,
                           scroll_offset)
            IN IF r.ok THEN cursor' = r.cursor /\ status' = "ok"
               ELSE status' = "panic"]_vars

\* a click in the bottom right corner of the code view has put the cursor
\* in the last line, and with the mouse on the edge that the file tree and
\* the code view share a wheel event has scrolled the file tree only
C37_Witness ==
  /\ status = "ok"
  /\ ev.kind = "wheel"
  /\ mouse_pos = Position(2, 53)
  /\ cursor.row = 3
  /\ scroll_offset = [x |-> 0, y |-> 0]
  /\ tree_scroll_offset < 0
====
